---- MODULE Spec2Model ----
(***************************************************************************)
(* A model of the axes coordinate-transform and interaction engine of      *)
(* gpui-plot: AxisRange / AxesBounds arithmetic, the pixel scale cache,    *)
(* AxesModel pan / zoom / update, and the PlotModel / PlotView gesture     *)
(* state machine.                                                          *)
(*                                                                         *)
(* Numbers.  The program computes in f64 and casts pixel positions to f32. *)
(* Both are modelled as binary floating point with round-to-nearest-even:  *)
(* a finite value is m * 2^e with an odd significand m of at most F64Bits  *)
(* (resp. F32Bits) bits and an unbounded exponent, plus NaN and the two    *)
(* infinities.  Only the significand width differs from IEEE-754 (53 and   *)
(* 24 bits there); zero is unsigned and there is no overflow to infinity.  *)
(***************************************************************************)
EXTENDS Integers, Sequences, FiniteSets, TLC

\* Significand widths of the modelled f64 and f32.
F64Bits == 12
F32Bits == 8

-----------------------------------------------------------------------------
(* Floating point                                                          *)

AbsInt(n) == IF n < 0 THEN -n ELSE n
SignInt(n) == IF n < 0 THEN -1 ELSE IF n > 0 THEN 1 ELSE 0
MaxInt(a, b) == IF a >= b THEN a ELSE b

RECURSIVE BitLen(_)
BitLen(n) == IF n = 0 THEN 0 ELSE 1 + BitLen(n \div 2)

RECURSIVE Fin(_, _)
\* The canonical finite value m * 2^e: the significand is odd, or the value is 0.
Fin(m, e) ==
    IF m = 0 THEN [k |-> "fin", m |-> 0, e |-> 0]
    ELSE IF m % 2 = 0 THEN Fin(m \div 2, e + 1)
    ELSE [k |-> "fin", m |-> m, e |-> e]

NaN == [k |-> "nan", m |-> 0, e |-> 0]
Inf(s) == [k |-> "inf", m |-> s, e |-> 0]
Zero == Fin(0, 0)

IsNaN(a) == a.k = "nan"
IsInf(a) == a.k = "inf"
IsFinite(a) == a.k = "fin"

\* sign * mag * 2^e, where mag has len > p bits, rounded to p bits, ties to even
\* (a non-zero sticky makes the value slightly larger in magnitude).
RoundShift(sign, e, sticky, sh, q, r, half) ==
    Fin(sign * (IF r > half \/ (r = half /\ (sticky = 1 \/ q % 2 = 1)) THEN q + 1 ELSE q),
        e + sh)

RoundLen(p, m, e, sticky, mag, len) ==
    IF len <= p THEN Fin(m, e)
    ELSE RoundShift(SignInt(m), e, sticky, len - p,
                    mag \div (2 ^ (len - p)), mag % (2 ^ (len - p)), 2 ^ (len - p - 1))

\* m * 2^e (made slightly larger in magnitude when sticky = 1) rounded to a
\* significand of p bits, ties to even.
RoundTo(p, m, e, sticky) == RoundLen(p, m, e, sticky, AbsInt(m), BitLen(AbsInt(m)))

Neg(a) == [a EXCEPT !.m = -a.m]

\* hi + lo for finite non-zero values with hi.e >= lo.e
AddAligned(p, hi, lo, lhi, llo) ==
    IF lo.e + llo <= hi.e + lhi - p - 2 THEN hi
    ELSE RoundTo(p, hi.m * (2 ^ (hi.e - lo.e)) + lo.m, lo.e, 0)

AddP(p, a, b) ==
    IF IsNaN(a) \/ IsNaN(b) THEN NaN
    ELSE IF IsInf(a) /\ IsInf(b) THEN (IF a.m = b.m THEN a ELSE NaN)
    ELSE IF IsInf(a) THEN a
    ELSE IF IsInf(b) THEN b
    ELSE IF a.m = 0 THEN b
    ELSE IF b.m = 0 THEN a
    ELSE IF a.e >= b.e THEN AddAligned(p, a, b, BitLen(AbsInt(a.m)), BitLen(AbsInt(b.m)))
    ELSE AddAligned(p, b, a, BitLen(AbsInt(b.m)), BitLen(AbsInt(a.m)))

MulP(p, a, b) ==
    IF IsNaN(a) \/ IsNaN(b) THEN NaN
    ELSE IF IsInf(a) \/ IsInf(b)
         THEN (IF a.m = 0 \/ b.m = 0 THEN NaN ELSE Inf(SignInt(a.m) * SignInt(b.m)))
    ELSE RoundTo(p, a.m * b.m, a.e + b.e, 0)

\* a / b for finite non-zero values, the quotient computed to p + 2 bits at least
DivScaled(p, a, b, s) ==
    RoundTo(p, SignInt(a.m) * SignInt(b.m) * ((AbsInt(a.m) * (2 ^ s)) \div AbsInt(b.m)),
            a.e - s - b.e,
            IF (AbsInt(a.m) * (2 ^ s)) % AbsInt(b.m) # 0 THEN 1 ELSE 0)

DivP(p, a, b) ==
    IF IsNaN(a) \/ IsNaN(b) THEN NaN
    ELSE IF IsInf(a) THEN (IF IsInf(b) THEN NaN
                           ELSE Inf(a.m * (IF b.m < 0 THEN -1 ELSE 1)))
    ELSE IF IsInf(b) THEN Zero
    ELSE IF b.m = 0 THEN (IF a.m = 0 THEN NaN ELSE Inf(SignInt(a.m)))
    ELSE IF a.m = 0 THEN Zero
    ELSE DivScaled(p, a, b, MaxInt(0, p + 2 + BitLen(AbsInt(b.m)) - BitLen(AbsInt(a.m))))

\* f64 arithmetic
Add(a, b) == AddP(F64Bits, a, b)
Sub(a, b) == AddP(F64Bits, a, Neg(b))
Mul(a, b) == MulP(F64Bits, a, b)
Div(a, b) == DivP(F64Bits, a, b)

\* f32 arithmetic (gpui Pixels)
Add32(a, b) == AddP(F32Bits, a, b)
Sub32(a, b) == AddP(F32Bits, a, Neg(b))

\* `x as f32`
AsF32(a) == IF IsFinite(a) THEN RoundTo(F32Bits, a.m, a.e, 0) ELSE a

\* Comparisons of IEEE values: every comparison with NaN is false.
Lt(a, b) == LET d == Sub(a, b) IN ~IsNaN(a) /\ ~IsNaN(b) /\ a # b /\ d.m < 0
Le(a, b) == ~IsNaN(a) /\ ~IsNaN(b) /\ (a = b \/ Lt(a, b))
Gt(a, b) == Lt(b, a)
Ge(a, b) == Le(b, a)
FAbs(a) == [a EXCEPT !.m = AbsInt(a.m)]
FMin(a, b) == IF Le(a, b) THEN a ELSE b
FMax(a, b) == IF Ge(a, b) THEN a ELSE b

\* The f64 nearest to the integer n, and to the decimal literal num/den.
F(n) == RoundTo(F64Bits, n, 0, 0)
Q(num, den) == Div(F(num), F(den))

\* Option<T>
None == [some |-> FALSE]
Some(v) == [some |-> TRUE, v |-> v]

\* gpui Point / Size of f64 or Pixels
point(x, y) == [x |-> x, y |-> y]
size(w, h) == [width |-> w, height |-> h]
PointSub(a, b) == point(Sub(a.x, b.x), Sub(a.y, b.y))
PointAdd(a, b) == point(Add(a.x, b.x), Add(a.y, b.y))
PointMul(a, f) == point(Mul(a.x, f), Mul(a.y, f))
PixelsPointSub(a, b) == point(Sub32(a.x, b.x), Sub32(a.y, b.y))

-----------------------------------------------------------------------------
(* geometry/axis.rs, for the axis type f64 (to_f64 and from_f64 are the    *)
(* identity there, Delta = f64)                                            *)

new_with_base(base, min, max) ==
    [base |-> base, min_to_base |-> Sub(min, base), max_to_base |-> Sub(max, base)]

new_with_base_f64(base, min, max) ==
    [base |-> base, min_to_base |-> min, max_to_base |-> max]

AxisRange_new(min, max) ==
    LET base == Div(Sub(max, min), F(2))
    IN  new_with_base(base, min, max)

range_min(r) == Add(r.base, r.min_to_base)
range_max(r) == Add(r.base, r.max_to_base)
contains(r, value) == Ge(value, range_min(r)) /\ Le(value, range_max(r))
size_in_f64(r) == Sub(r.max_to_base, r.min_to_base)

AxisRangePixels_from_bounds(min, max, sz) ==
    [min |-> min, max |-> max, size |-> sz, pixels_per_element |-> NaN]

\* bounds = [origin |-> point, size |-> size], in Pixels
AxesBoundsPixels_from_bounds(bounds) ==
    [x |-> AxisRangePixels_from_bounds(bounds.origin.x,
                                       Add32(bounds.origin.x, bounds.size.width),
                                       bounds.size.width),
     y |-> AxisRangePixels_from_bounds(Add32(bounds.origin.y, bounds.size.height),
                                       bounds.origin.y,
                                       bounds.size.height)]

pixels_per_element(r, bounds) == Div(bounds.size, size_in_f64(r))

elements_per_pixels(r, delta, bounds) == Div(Mul(delta, size_in_f64(r)), bounds.size)

transform(r, bounds, value) ==
    AsF32(Add(Mul(Sub(value, range_min(r)), bounds.pixels_per_element), bounds.min))

\* transform_reverse without the pixel range's origin
transform_reverse_no_origin(r, bounds, value) ==
    Add(range_min(r), Div(value, bounds.pixels_per_element))

transform_reverse(r, bounds, value) ==
    Add(range_min(r), Div(Sub32(value, bounds.min), bounds.pixels_per_element))

transform_reverse_f64(r, bounds, value) ==
    Add(r.min_to_base, Div(Sub(value, bounds.min), bounds.pixels_per_element))

\* partial_cmp: "none" when either side is NaN
partial_cmp(a, b) ==
    IF IsNaN(a) \/ IsNaN(b) THEN "none"
    ELSE IF Lt(a, b) THEN "less"
    ELSE IF Gt(a, b) THEN "greater"
    ELSE "equal"

\* union keeping self's maximum
union_keeps_max(self, other) ==
    LET cb == partial_cmp(self.base, other.base)
        cl == partial_cmp(range_min(self), range_min(other))
        ch == partial_cmp(range_max(self), range_max(other))
        base == IF cb = "greater" THEN other.base ELSE self.base
        min  == IF cl = "greater" THEN range_min(other) ELSE range_min(self)
    IN  IF cb = "none" \/ cl = "none" \/ ch = "none" THEN None
        ELSE Some(new_with_base(base, min, range_max(self)))

union(self, other) ==
    LET cb == partial_cmp(self.base, other.base)
        cl == partial_cmp(range_min(self), range_min(other))
        ch == partial_cmp(range_max(self), range_max(other))
        base == IF cb = "greater" THEN other.base ELSE self.base
        min  == IF cl = "greater" THEN range_min(other) ELSE range_min(self)
        max  == IF ch = "less" THEN range_max(other) ELSE range_max(self)
    IN  IF cb = "none" \/ cl = "none" \/ ch = "none" THEN None
        ELSE Some(new_with_base(base, min, max))

\* impl Add<f64> for AxisRange
range_add(r, rhs) ==
    [base |-> r.base,
     min_to_base |-> Add(r.min_to_base, rhs),
     max_to_base |-> Add(r.max_to_base, rhs)]

AxesBounds_new(x, y) == [x |-> x, y |-> y]

\* impl Add<Size<f64>> for AxesBounds
bounds_add(b, rhs) == [x |-> range_add(b.x, rhs.width), y |-> range_add(b.y, rhs.height)]

resize_axis(r, factor) ==
    LET midpoint == Div(Add(r.min_to_base, r.max_to_base), F(2))
        sz       == Mul(Sub(r.max_to_base, r.min_to_base), factor)
    IN  [base |-> r.base,
         min_to_base |-> Sub(midpoint, Div(sz, F(2))),
         max_to_base |-> Add(midpoint, Div(sz, F(2)))]

resize(b, factor) == [x |-> resize_axis(b.x, factor), y |-> resize_axis(b.y, factor)]

transform_point(b, bounds, p) ==
    point(transform(b.x, bounds.x, p.x), transform(b.y, bounds.y, p.y))

transform_point_reverse_f64(b, bounds, p) ==
    point(transform_reverse_f64(b.x, bounds.x, p.x),
          transform_reverse_f64(b.y, bounds.y, p.y))

min_point_f64(b) == point(b.x.min_to_base, b.y.min_to_base)
max_point_f64(b) == point(b.x.max_to_base, b.y.max_to_base)

-----------------------------------------------------------------------------
(* figure/axes/model.rs                                                    *)

\* zoom_with_point with the max point mapped back from the zoomed min offset
zoom_with_point_min_for_max(zoom_point, min_point, max_point, zoom_factor) ==
    LET min_shifted == PointSub(min_point, zoom_point)
        min_zoomed  == PointMul(min_shifted, zoom_factor)
    IN  <<PointAdd(zoom_point, min_zoomed), PointAdd(zoom_point, min_zoomed)>>

\* Returns <<min, max>>.
zoom_with_point(zoom_point, min_point, max_point, zoom_factor) ==
    LET min_shifted == PointSub(min_point, zoom_point)
        max_shifted == PointSub(max_point, zoom_point)
        min_zoomed  == PointMul(min_shifted, zoom_factor)
        max_zoomed  == PointMul(max_shifted, zoom_factor)
    IN  <<PointAdd(zoom_point, min_zoomed), PointAdd(zoom_point, max_zoomed)>>

-----------------------------------------------------------------------------
(* Bounds of the model                                                     *)

\* AxisRange::iter_step_by: the iterator before the first call of next()
iter_step_by(r, step) ==
    [kind |-> "step_by", r |-> r, step |-> step, current |-> range_min(r)]

\* AxisRange::iter_step_by_f64: the iterator before the first call of next()
iter_step_by_f64(r, step) ==
    [kind |-> "step_by_f64", r |-> r, step |-> step, current |-> r.min_to_base]

\* One call of next() on the iterator: the item returned and the iterator after
iter_next(it) ==
    IF it.kind = "step_by"
    THEN IF Gt(it.current, range_max(it.r))
         THEN [item |-> None, it |-> it]
         ELSE [item |-> Some(it.current),
               it |-> [it EXCEPT !.current = Add(it.current, it.step)]]
    ELSE IF Gt(it.current, it.r.max_to_base)
         THEN [item |-> None, it |-> it]
         ELSE [item |-> Some(Add(it.r.base, it.current)),
               it |-> [it EXCEPT !.current = Add(it.current, it.step)]]

-----------------------------------------------------------------------------
(* figure/grid.rs: GridModel                                                *)

\* Most grid lines collected on one axis: an iterator that has not ended by then
\* never ends.
MaxLines == 12

\* GridType::Density(size2(x, y)) and GridType::Numbers(x, y)
Density(width, height) == [kind |-> "Density", width |-> width, height |-> height]
Numbers(x, y) == [kind |-> "Numbers", x |-> x, y |-> y]

\* GridModel::new; hung: update_grid was entered and has not returned, its
\* collect() taking items from an iterator that never ends
GridModel_new(ty) ==
    [ty |-> ty, movable |-> TRUE, grid_x_lines |-> <<>>, grid_y_lines |-> <<>>,
     hung |-> FALSE]

\* GridModel::from_density
from_density(x, y) == GridModel_new(Density(x, y))

\* GridModel::from_numbers
from_numbers(x, y) == GridModel_new(Numbers(x, y))

\* GridModel::with_fixed
with_fixed(g) == [g EXCEPT !.movable = FALSE]

\* should_update_grid with the sense of movable inverted
should_update_grid_unless_movable(g) ==
    IF ~g.movable THEN g.grid_x_lines = <<>> \/ g.grid_y_lines = <<>>
    ELSE TRUE

\* GridModel::should_update_grid
should_update_grid(g) ==
    IF g.movable THEN g.grid_x_lines = <<>> \/ g.grid_y_lines = <<>>
    ELSE TRUE

\* AxisRange::difference: max - min
difference(r) == Sub(range_max(r), range_min(r))

\* AxisRange::in_range: min <= value <= max
in_range(r, value) == Le(range_min(r), value) /\ Le(value, range_max(r))

\* delta_from_f32(delta_to_f32(d) / n as f32): the f32 quotient, as an f64
delta_over(d, n) == DivP(F32Bits, AsF32(d), AsF32(F(n)))

\* The density update_grid resolves for the bounds ab
grid_density(ty, ab) ==
    IF ty.kind = "Density" THEN size(ty.width, ty.height)
    ELSE size(delta_over(difference(ab.x), ty.x), delta_over(difference(ab.y), ty.y))

RECURSIVE collect_from(_, _, _)
\* Iterator::collect, nx being the result of next(): the items in order, and
\* whether the iterator ended within fuel more items
collect_from(nx, fuel, acc) ==
    IF ~nx.item.some THEN [lines |-> acc, ended |-> TRUE]
    ELSE IF fuel = 0 THEN [lines |-> acc, ended |-> FALSE]
    ELSE collect_from(iter_next(nx.it), fuel - 1, Append(acc, nx.item.v))

collect(it) == collect_from(iter_next(it), MaxLines, <<>>)

\* Vec::retain(|x| r.in_range(*x))
retain(lines, r) == SelectSeq(lines, LAMBDA x : in_range(r, x))

\* The assignments of update_grid_by_density, cx and cy being the collected
\* x and y candidates
grid_collected(g, ab, cx, cy) ==
    IF ~cx.ended THEN [g EXCEPT !.hung = TRUE]
    ELSE IF ~cy.ended
    THEN [g EXCEPT !.grid_x_lines = retain(cx.lines, ab.x), !.hung = TRUE]
    ELSE [g EXCEPT !.grid_x_lines = retain(cx.lines, ab.x),
                   !.grid_y_lines = retain(cy.lines, ab.y)]

\* update_grid_by_density stepping the x candidates by the y spacing and the
\* y candidates by the x spacing
update_grid_by_density_swapped(g, ab, density) ==
    grid_collected(g, ab, collect(iter_step_by(ab.x, density.height)),
                   collect(iter_step_by(ab.y, density.width)))

\* GridModel::update_grid_by_density
update_grid_by_density(g, ab, density) ==
    grid_collected(g, ab, collect(iter_step_by(ab.x, density.width)),
                   collect(iter_step_by(ab.y, density.height)))

\* GridModel::update_grid
update_grid(g, ab) == update_grid_by_density(g, ab, grid_density(g.ty, ab))

\* GridModel::try_update_grid
try_update_grid(g, ab) == IF should_update_grid(g) THEN update_grid(g, ab) ELSE g

\* Longest sequence of zoom factors applied before they are undone.
MaxSeq == 2
\* Most operations applied to one AxesModel in a run.
MaxSteps == 3

-----------------------------------------------------------------------------
(* State                                                                   *)

VARIABLES
    axes_model,   \* the AxesModel<f64, f64>
    steps,        \* operations applied to the model so far
    last,         \* the last operation: its name, inputs and the model before it
    pf,           \* a pure function or gesture under test: its inputs and results
    plot_model,   \* the PlotModel the axes are registered in
    plot_view     \* the PlotView of that PlotModel

vars == <<axes_model, steps, last, pf, plot_model, plot_view>>

\* gpui Bounds<Pixels>
Bounds(ox, oy, w, h) == [origin |-> point(ox, oy), size |-> size(w, h)]
Bounds_default == Bounds(Zero, Zero, Zero, Zero)

\* AxesModel::new
AxesModel_new_with(axes_bounds, grid) ==
    [axes_bounds     |-> axes_bounds,
     pixel_bounds    |-> AxesBoundsPixels_from_bounds(Bounds_default),
     grid            |-> grid,
     pan_state       |-> None,
     zoom_state      |-> None,
     event_processed |-> FALSE,
     elements        |-> <<>>,
     update_type     |-> "Free"]

\* AxesModel::new(bounds, GridModel::from_numbers(10, 10)), as the examples make it
AxesModel_new(bounds) == AxesModel_new_with(bounds, from_numbers(10, 10))

\* update_scale without the negation of the y scale
update_scale_y_up(m, shrunk_bounds) ==
    LET pb == AxesBoundsPixels_from_bounds(shrunk_bounds)
    IN  [m EXCEPT !.pixel_bounds =
            [x |-> [pb.x EXCEPT !.pixels_per_element =
                        pixels_per_element(m.axes_bounds.x, pb.x)],
             y |-> [pb.y EXCEPT !.pixels_per_element =
                        pixels_per_element(m.axes_bounds.y, pb.y)]]]

\* AxesModel::update_scale
update_scale(m, shrunk_bounds) ==
    LET pb == AxesBoundsPixels_from_bounds(shrunk_bounds)
    IN  [m EXCEPT !.pixel_bounds =
            [x |-> [pb.x EXCEPT !.pixels_per_element =
                        pixels_per_element(m.axes_bounds.x, pb.x)],
             y |-> [pb.y EXCEPT !.pixels_per_element =
                        Neg(pixels_per_element(m.axes_bounds.y, pb.y))]]]

\* The examples' axes: AxesBounds::new(AxisRange::new(0.0, 100.0), AxisRange::new(0.0, 100.0))
ExampleBounds == AxesBounds_new(AxisRange_new(F(0), F(100)), AxisRange_new(F(0), F(100)))

NoOp == [op |-> "none"]

\* PlotModel::new; axes holds one handle per registration of the AxesModel
PlotModel_new == [panning |-> FALSE, zooming |-> FALSE, axes |-> <<>>]

\* PlotView::new; last_zoom_ts is None or Some("ts"), the Instant of the last zoom
PlotView_new == [last_zoom_ts |-> None, acc_zoom_in |-> Zero, last_zoom_rb |-> None]

\* AxesBoundsPixels::into_bounds
into_bounds(pb) ==
    Bounds(pb.x.min, pb.y.max, AsF32(pb.x.size), AsF32(pb.y.size))

\* PanState
PanState(initial_axes_bounds, initial_pan_position) ==
    [initial_axes_bounds |-> initial_axes_bounds,
     initial_pan_position |-> initial_pan_position]

\* AxesModel::plot / add_element; an element is a Line of points, or one drawn
\* by a function (plot_fn)
plot(m, element) == [m EXCEPT !.elements = Append(m.elements, element)]

\* The coordinate of point p along axis
Coord(p, axis) == IF axis = "x" THEN p.x ELSE p.y

RECURSIVE FoldPoints(_, _, _, _, _)
\* The loop of get_x_range / get_y_range over points[i..]: the least (want =
\* "min") or greatest coordinate along axis, acc being the one found so far
FoldPoints(points, i, axis, want, acc) ==
    IF i > Len(points) THEN acc
    ELSE FoldPoints(points, i + 1, axis, want,
                    IF want = "min"
                    THEN (IF Lt(Coord(points[i], axis), acc)
                          THEN Coord(points[i], axis) ELSE acc)
                    ELSE (IF Gt(Coord(points[i], axis), acc)
                          THEN Coord(points[i], axis) ELSE acc))

\* The range of a non-empty Line's points along axis
points_range(points, axis) ==
    AxisRange_new(FoldPoints(points, 1, axis, "min", Coord(points[1], axis)),
                  FoldPoints(points, 1, axis, "max", Coord(points[1], axis)))

\* GeometryAxesFn::new(f).with_x_range(..).with_y_range(..), x_range and
\* y_range being Options
GeometryAxesFn(x_range, y_range) ==
    [kind |-> "fn", points |-> <<>>, x_range |-> x_range, y_range |-> y_range]

\* GeometryAxes::get_x_range: of a Line, and of a GeometryAxesFn
get_x_range(element) ==
    IF element.kind # "line" THEN element.x_range
    ELSE IF element.points = <<>> THEN None
    ELSE Some(points_range(element.points, "x"))

\* GeometryAxes::get_y_range
get_y_range(element) ==
    IF element.kind # "line" THEN element.y_range
    ELSE IF element.points = <<>> THEN None
    ELSE Some(points_range(element.points, "y"))

\* One round of the loop of AxesModel::update that takes the ranges of the
\* element in place of the union
update_step_last(new_axes_bounds, x, y) ==
    IF ~x.some \/ ~y.some THEN new_axes_bounds
    ELSE Some(AxesBounds_new(x.v, y.v))

\* One round of the loop of AxesModel::update, for an element with ranges x and y
update_step(new_axes_bounds, x, y) ==
    IF ~x.some \/ ~y.some THEN new_axes_bounds
    ELSE IF ~new_axes_bounds.some THEN Some(AxesBounds_new(x.v, y.v))
    ELSE Some([x |-> IF union(new_axes_bounds.v.x, x.v).some
                     THEN union(new_axes_bounds.v.x, x.v).v
                     ELSE new_axes_bounds.v.x,
               y |-> IF union(new_axes_bounds.v.y, y.v).some
                     THEN union(new_axes_bounds.v.y, y.v).v
                     ELSE new_axes_bounds.v.y])

RECURSIVE update_bounds(_, _, _)
\* The loop of AxesModel::update over elements[i..], with new_axes_bounds so far
update_bounds(elements, i, new_axes_bounds) ==
    IF i > Len(elements) THEN new_axes_bounds
    ELSE update_bounds(elements, i + 1,
                       update_step(new_axes_bounds, get_x_range(elements[i]),
                                   get_y_range(elements[i])))

\* The end of AxesModel::update, given the bounds the loop found
update_with(m, new_axes_bounds) ==
    IF ~new_axes_bounds.some THEN [m EXCEPT !.update_type = "Auto"]
    ELSE [m EXCEPT !.update_type = "Auto", !.axes_bounds = new_axes_bounds.v,
                   !.grid = update_grid(m.grid, new_axes_bounds.v)]

\* AxesModel::update
update(m) == update_with(m, update_bounds(m.elements, 1, None))

\* No call on the model is stuck in update_grid
Running(m) == ~m.grid.hung

\* self.grid.try_update_grid(&cx1), cx1 being the context of the model itself
grid_tried(m) == [m EXCEPT !.grid = try_update_grid(m.grid, m.axes_bounds)]

\* Axes::new_render
new_render(m) == grid_tried([m EXCEPT !.event_processed = FALSE])

\* Axes::pan_begin
pan_begin(m, position) ==
    IF m.update_type = "Fixed" THEN m
    ELSE IF m.event_processed THEN m
    ELSE [m EXCEPT !.pan_state = Some(PanState(m.axes_bounds, position))]

\* pan with the delta on y negated as well
pan_by_y_negated(m, delta_pixels) ==
    [m EXCEPT !.axes_bounds =
        bounds_add(m.pan_state.v.initial_axes_bounds,
                   size(elements_per_pixels(m.axes_bounds.x, Neg(delta_pixels.x),
                                            m.pixel_bounds.x),
                        elements_per_pixels(m.axes_bounds.y, Neg(delta_pixels.y),
                                            m.pixel_bounds.y)))]

\* pan with the delta added to the live bounds, not to the gesture-start snapshot
pan_by_live(m, delta_pixels) ==
    [m EXCEPT !.axes_bounds =
        bounds_add(m.axes_bounds,
                   size(elements_per_pixels(m.axes_bounds.x, Neg(delta_pixels.x),
                                            m.pixel_bounds.x),
                        elements_per_pixels(m.axes_bounds.y, delta_pixels.y,
                                            m.pixel_bounds.y)))]

\* The body of Axes::pan once the pan state is known to be set
pan_by(m, delta_pixels) ==
    [m EXCEPT !.axes_bounds =
        bounds_add(m.pan_state.v.initial_axes_bounds,
                   size(elements_per_pixels(m.axes_bounds.x, Neg(delta_pixels.x),
                                            m.pixel_bounds.x),
                        elements_per_pixels(m.axes_bounds.y, delta_pixels.y,
                                            m.pixel_bounds.y)))]

\* Axes::pan, for a MouseMoveEvent at position
pan(m, position) ==
    IF m.event_processed THEN m
    ELSE IF ~m.pan_state.some THEN m
    ELSE grid_tried(pan_by(m, PixelsPointSub(position,
                                             m.pan_state.v.initial_pan_position)))

\* Axes::pan_end
pan_end(m) ==
    IF m.event_processed THEN m
    ELSE [m EXCEPT !.pan_state = None]

\* The end of Axes::zoom: the new bounds from the zoomed <<min, max>>
zoom_to(m, r) ==
    [m EXCEPT !.axes_bounds =
        AxesBounds_new(new_with_base_f64(m.axes_bounds.x.base, r[1].x, r[2].x),
                       new_with_base_f64(m.axes_bounds.y.base, r[1].y, r[2].y))]

\* zoom about the absolute data point under the cursor, not its offset from base
zoom_absolute_pivot(m, pt, delta) ==
    IF m.event_processed THEN m
    ELSE grid_tried(zoom_to(m, zoom_with_point(
                        PointAdd(point(m.axes_bounds.x.base, m.axes_bounds.y.base),
                                 transform_point_reverse_f64(m.axes_bounds, m.pixel_bounds,
                                                             pt)),
                        min_point_f64(m.axes_bounds), max_point_f64(m.axes_bounds),
                        Add(F(1), Mul(delta, F(1))))))

\* Axes::zoom
zoom(m, pt, delta) ==
    IF m.event_processed THEN m
    ELSE grid_tried(zoom_to(m, zoom_with_point(
                        transform_point_reverse_f64(m.axes_bounds, m.pixel_bounds, pt),
                        min_point_f64(m.axes_bounds), max_point_f64(m.axes_bounds),
                        Add(F(1), Mul(delta, F(1))))))
-----------------------------------------------------------------------------
(* zoom_with_point applied to a series of factors and then to their        *)
(* inverses in reverse order, as in test_zoom_with_point_series            *)

ZoomFactors == {Q(9, 10), F(1), Q(11, 10), Q(12, 10), F(2), Q(1, 4), F(3), F(-1)}
SeriesPivots == {point(F(0), F(0)), point(F(5), F(5)), point(F(3), Q(1, 10))}
SeriesMins == {point(F(-10), F(-10)), point(Q(1, 10), F(-10))}
SeriesMaxs == {point(F(10), F(10)), point(Q(7, 10), F(10))}

SeriesInit ==
    /\ axes_model = AxesModel_new(ExampleBounds)
    /\ steps = 0
    /\ plot_model = PlotModel_new
    /\ plot_view = PlotView_new
    /\ last = NoOp
    /\ \E zp \in SeriesPivots, mn \in SeriesMins, mx \in SeriesMaxs :
          pf = [zoom_point |-> zp, min_point |-> mn, max_point |-> mx,
                min |-> mn, max |-> mx, zoom_factors |-> <<>>, undone |-> 0]

\* for zoom_factor in zoom_factors.iter()
SeriesForward(zoom_factor) ==
    /\ pf.undone = 0
    /\ Len(pf.zoom_factors) < MaxSeq
    /\ LET r == zoom_with_point(pf.zoom_point, pf.min, pf.max, zoom_factor)
       IN  pf' = [pf EXCEPT !.min = r[1], !.max = r[2],
                            !.zoom_factors = Append(pf.zoom_factors, zoom_factor)]
    /\ UNCHANGED <<axes_model, steps, last, plot_model, plot_view>>

\* for zoom_factor in zoom_factors.iter().rev(): zoom by 1.0 / zoom_factor
SeriesBackward ==
    /\ pf.undone < Len(pf.zoom_factors)
    /\ LET zoom_factor == Div(F(1), pf.zoom_factors[Len(pf.zoom_factors) - pf.undone])
           r == zoom_with_point(pf.zoom_point, pf.min, pf.max, zoom_factor)
       IN  pf' = [pf EXCEPT !.min = r[1], !.max = r[2], !.undone = pf.undone + 1]
    /\ UNCHANGED <<axes_model, steps, last, plot_model, plot_view>>

SeriesNext ==
    \/ \E f \in ZoomFactors : SeriesForward(f)
    \/ SeriesBackward

SpecZoomSeries == SeriesInit /\ [][SeriesNext]_vars

SeriesDone == pf.undone > 0 /\ pf.undone = Len(pf.zoom_factors)

\* k units of relative rounding error (2^-F64Bits) of the magnitude scale
Ulps(k, scale) == Mul(Fin(k, -F64Bits), FAbs(scale))
Within(a, b, tol) == Le(FAbs(Sub(a, b)), tol)

RECURSIVE ZoomIn(_)
\* How far a series zooms in at most: the product of max(1, 1/|f|) over its factors
ZoomIn(fs) ==
    IF fs = <<>> THEN F(1)
    ELSE Mul(FMax(F(1), FAbs(Div(F(1), Head(fs)))), ZoomIn(Tail(fs)))

SeriesTol(v0, zp) ==
    Ulps(16 * Len(pf.zoom_factors),
         Mul(ZoomIn(pf.zoom_factors), Add(FAbs(zp), FAbs(Sub(v0, zp)))))

SeriesClose(v, v0, zp) == Within(v, v0, SeriesTol(v0, zp))

-----------------------------------------------------------------------------
(* transform and transform_reverse under the scale cached by update_scale  *)

\* px(n)
Px(n) == AsF32(F(n))
Ulps32(k, scale) == Mul(Fin(k, -F32Bits), FAbs(scale))

TransformRangesX ==
    {AxisRange_new(F(0), F(100)), AxisRange_new(Q(1, 10), Q(7, 10)),
     AxisRange_new(F(-3), F(0)), new_with_base(F(1000), F(998), F(1003))}
TransformRangesY ==
    {AxisRange_new(F(0), F(100)), AxisRange_new(Q(-1, 3), Q(7, 10)),
     AxisRange_new(Q(-5, 7), Q(-4, 7))}
ShrunkRects ==
    {Bounds(Px(0), Px(0), Px(800), Px(600)), Bounds(Px(30), Px(0), Px(200), Px(100)),
     Bounds(Px(30), Px(10), Px(100), Px(60))}
ProbeFractions == {F(0), Q(1, 3), Q(1, 2), Q(9, 10), F(1)}

\* The value a fraction t of the way from min to max
ProbeAt(r, t) ==
    IF t = F(0) THEN range_min(r)
    ELSE IF t = F(1) THEN range_max(r)
    ELSE Add(range_min(r), Mul(size_in_f64(r), t))

ScaleCached(m) ==
    /\ Gt(m.pixel_bounds.x.size, Zero) /\ Gt(m.pixel_bounds.y.size, Zero)
    /\ ~IsNaN(m.pixel_bounds.x.pixels_per_element)
    /\ ~IsNaN(m.pixel_bounds.y.pixels_per_element)

TransformInit ==
    /\ \E x \in TransformRangesX, y \in TransformRangesY :
          axes_model = AxesModel_new(AxesBounds_new(x, y))
    /\ steps = 0
    /\ plot_model = PlotModel_new
    /\ plot_view = PlotView_new
    /\ last = NoOp
    /\ pf = NoOp

TransformUpdateScale(shrunk_bounds) ==
    /\ axes_model' = update_scale(axes_model, shrunk_bounds)
    /\ pf' = NoOp
    /\ UNCHANGED <<steps, last, plot_model, plot_view>>

\* The probe of the values v <= w and of the pixel position pv of v
ProbeValues(t1, t2, ab, pb, v, w, pv) ==
    /\ contains(ab.x, v.x) /\ contains(ab.y, v.y)
    /\ contains(ab.x, w.x) /\ contains(ab.y, w.y)
    /\ Le(v.x, w.x) /\ Le(v.y, w.y)
    /\ pf' = [op |-> "transform", t1 |-> t1, t2 |-> t2, value |-> v, value2 |-> w,
              pixel |-> pv, pixel2 |-> transform_point(ab, pb, w),
              back |-> point(transform_reverse(ab.x, pb.x, pv.x),
                             transform_reverse(ab.y, pb.y, pv.y))]

ProbePoints(t1, t2, ab, pb, v, w) ==
    ProbeValues(t1, t2, ab, pb, v, w, transform_point(ab, pb, v))

\* transform two points with min <= v <= w <= max on each axis, and reverse the first
TransformProbe(t1, t2) ==
    /\ ScaleCached(axes_model)
    /\ Le(t1, t2)
    /\ ProbePoints(t1, t2, axes_model.axes_bounds, axes_model.pixel_bounds,
                   point(ProbeAt(axes_model.axes_bounds.x, t1),
                         ProbeAt(axes_model.axes_bounds.y, t1)),
                   point(ProbeAt(axes_model.axes_bounds.x, t2),
                         ProbeAt(axes_model.axes_bounds.y, t2)))
    /\ UNCHANGED <<axes_model, steps, last, plot_model, plot_view>>

TransformNext ==
    \/ \E b \in ShrunkRects : TransformUpdateScale(b)
    \/ \E t1, t2 \in ProbeFractions : TransformProbe(t1, t2)

SpecTransform == TransformInit /\ [][TransformNext]_vars

Probed == pf.op = "transform"

\* C7 as stated: transform_reverse(transform(value)) is exactly value on both axes.
RoundTripExact == Probed => pf.back = pf.value

\* Rounding allowed for a round trip on one axis: the pixel position is rounded
\* to f32 and subtracted in f32, then scaled back to data units; the f64 steps
\* add a few units of rounding of the data magnitudes.
RoundTripTol(r, bounds) ==
    Add(Div(Ulps32(4, FMax(FAbs(bounds.min), FAbs(bounds.max))),
            FAbs(bounds.pixels_per_element)),
        Ulps(8, Add(FAbs(range_min(r)), FAbs(range_max(r)))))

\* C7 amended: the round trip returns the value up to rounding, within
\* 4 * 2^-F32Bits * (largest pixel coordinate) / |pixels_per_element|
\* + 8 * 2^-F64Bits * (|min| + |max|), on the x axis and on the y axis.
RoundTripWithinRounding ==
    Probed =>
        /\ Within(pf.back.x, pf.value.x,
                  RoundTripTol(axes_model.axes_bounds.x, axes_model.pixel_bounds.x))
        /\ Within(pf.back.y, pf.value.y,
                  RoundTripTol(axes_model.axes_bounds.y, axes_model.pixel_bounds.y))

\* A value strictly inside the range went through the round trip and came back changed.
RoundTripRounded ==
    /\ Probed
    /\ pf.value.x # range_min(axes_model.axes_bounds.x)
    /\ pf.back.x # pf.value.x
    /\ pf.back.y # pf.value.y

Monotonic ==
    /\ Le(pf.pixel.x, pf.pixel2.x)
    /\ Ge(pf.pixel.y, pf.pixel2.y)

\* C8 as stated: transform maps min to the pixel range's min and max to its max
\* exactly, and is monotonic, on both axes.
EndpointsExact ==
    Probed =>
        /\ pf.t1 = F(0) => /\ pf.pixel.x = axes_model.pixel_bounds.x.min
                           /\ pf.pixel.y = axes_model.pixel_bounds.y.min
        /\ pf.t2 = F(1) => /\ pf.pixel2.x = axes_model.pixel_bounds.x.max
                           /\ pf.pixel2.y = axes_model.pixel_bounds.y.max
        /\ Monotonic

\* Rounding allowed at the maximum of range r: the f64 rounding of the data and
\* pixel magnitudes, and the f32 rounding of the pixel edges
EndpointTol(r, bounds) ==
    Add(Ulps(8, Add(Add(FAbs(bounds.size), FAbs(bounds.min)),
                    Mul(FAbs(bounds.pixels_per_element),
                        Add(FAbs(range_min(r)), FAbs(range_max(r)))))),
        Ulps32(4, FMax(FAbs(bounds.min), FAbs(bounds.max))))

\* C8 amended: after update_scale, transform maps the range minimum to the pixel
\* range's min exactly, maps the range maximum to the pixel range's max up to
\* rounding (within 8 * 2^-F64Bits * (pixel size + |pixel min| +
\* |pixels_per_element| * (|min| + |max|)) + 4 * 2^-F32Bits * (largest pixel
\* edge)), and is monotonic in the value: non-decreasing on x, non-increasing on y.
EndpointsWithinRounding ==
    Probed =>
        /\ pf.t1 = F(0) => /\ pf.pixel.x = axes_model.pixel_bounds.x.min
                           /\ pf.pixel.y = axes_model.pixel_bounds.y.min
        /\ pf.t2 = F(1) =>
              /\ Within(pf.pixel2.x, axes_model.pixel_bounds.x.max,
                        EndpointTol(axes_model.axes_bounds.x, axes_model.pixel_bounds.x))
              /\ Within(pf.pixel2.y, axes_model.pixel_bounds.y.max,
                        EndpointTol(axes_model.axes_bounds.y, axes_model.pixel_bounds.y))
        /\ Monotonic

\* Both endpoints were transformed and the y maximum missed the top edge.
EndpointsProbed ==
    /\ Probed
    /\ pf.t1 = F(0)
    /\ pf.t2 = F(1)
    /\ pf.pixel2.y # axes_model.pixel_bounds.y.max

-----------------------------------------------------------------------------
(* One pan gesture on an AxesModel whose scale is cached: mouse down, moves *)
(* with the left button pressed (a render may follow each), mouse up        *)

\* Most pointer moves in one pan gesture.
MaxMoves == 3

PanBounds ==
    {ExampleBounds,
     AxesBounds_new(AxisRange_new(Q(1, 10), Q(7, 10)), AxisRange_new(Q(-1, 3), Q(7, 10))),
     AxesBounds_new(new_with_base(F(1000), F(998), F(1003)), AxisRange_new(F(-3), F(0)))}
PanRects == {Bounds(Px(0), Px(0), Px(800), Px(600)), Bounds(Px(30), Px(0), Px(740), Px(570))}
PanStarts == {point(Px(100), Px(100)), point(Px(400), Px(300))}
PanPositions ==
    {point(Px(180), Px(100)), point(Px(480), Px(300)), point(Px(137), Px(211)),
     point(Px(90), Px(400))}

PanInit ==
    /\ \E b \in PanBounds, rect \in PanRects :
          axes_model = update_scale(AxesModel_new(b), rect)
    /\ steps = 0
    /\ plot_model = PlotModel_new
    /\ plot_view = PlotView_new
    /\ last = NoOp
    /\ pf = NoOp

\* on_mouse_down(Left): pan_begin
PanDown(position) ==
    /\ pf = NoOp
    /\ axes_model' = pan_begin(axes_model, position)
    /\ pf' = [op |-> "pan", start |-> position, snapshot |-> axes_model.axes_bounds,
              moves |-> <<>>]
    /\ last' = [op |-> "pan_begin", before |-> axes_model, position |-> position]
    /\ UNCHANGED <<steps, plot_model, plot_view>>

\* on_mouse_move with the left button pressed: pan
PanMove(position) ==
    /\ pf.op = "pan"
    /\ Len(pf.moves) < MaxMoves
    /\ axes_model' = pan(axes_model, position)
    /\ pf' = [pf EXCEPT !.moves = Append(pf.moves, position)]
    /\ last' = [op |-> "pan", before |-> axes_model, position |-> position]
    /\ UNCHANGED <<steps, plot_model, plot_view>>

\* the frame rendered after a move: update_scale for the same rectangle
PanRender ==
    /\ last.op = "pan"
    /\ axes_model' = update_scale(axes_model, into_bounds(axes_model.pixel_bounds))
    /\ last' = [op |-> "render", before |-> axes_model, position |-> last.position]
    /\ UNCHANGED <<pf, steps, plot_model, plot_view>>

\* on_mouse_up(Left): pan_end
PanUp ==
    /\ pf.op = "pan"
    /\ axes_model' = pan_end(axes_model)
    /\ pf' = [op |-> "panned"]
    /\ last' = [op |-> "pan_end", before |-> axes_model, position |-> pf.start]
    /\ UNCHANGED <<steps, plot_model, plot_view>>

PanNext ==
    \/ \E p \in PanStarts : PanDown(p)
    \/ \E p \in PanPositions : PanMove(p)
    \/ PanRender
    \/ PanUp

SpecPan == PanInit /\ [][PanNext]_vars

Panned == pf.op = "pan" /\ pf.moves # <<>>

\* The model at the start of the gesture
PanStartModel == [axes_model EXCEPT !.axes_bounds = pf.snapshot]

\* The axes_bounds after a single move from the gesture start to the last position
SingleMove == pan(PanStartModel, pf.moves[Len(pf.moves)]).axes_bounds

\* C4 as stated: after the moves p1..pn the axes_bounds are exactly those after a
\* single move to pn.
PanReplayExact == Panned => axes_model.axes_bounds = SingleMove

RECURSIVE MaxDisplacement(_, _, _)
\* The largest |p - start| over the moves p, along one axis
MaxDisplacement(moves, start, axis) ==
    IF moves = <<>> THEN Zero
    ELSE FMax(FAbs(IF axis = "x" THEN Sub32(Head(moves).x, start.x)
                   ELSE Sub32(Head(moves).y, start.y)),
              MaxDisplacement(Tail(moves), start, axis))

\* Rounding allowed between a replayed and a single move on one axis, for the
\* snapshot range r, the pixel size sz and the largest displacement d
PanTol(r, sz, d) ==
    Ulps(8, Mul(Add(Add(FAbs(r.min_to_base), FAbs(r.max_to_base)),
                    Div(Mul(d, FAbs(size_in_f64(r))), sz)),
                Add(F(1), Div(d, sz))))

PanClose(got, want, r, sz, d) ==
    /\ got.base = want.base
    /\ Within(got.min_to_base, want.min_to_base, PanTol(r, sz, d))
    /\ Within(got.max_to_base, want.max_to_base, PanTol(r, sz, d))

\* C4 amended: after the moves p1..pn the axes_bounds have the base of, and on
\* each axis offsets within 8 * 2^-F64Bits * (|min_to_base| + |max_to_base| +
\* d * size / pixel size) * (1 + d / pixel size) of, those after a single move to
\* pn, for the snapshot's offsets and size and the largest displacement d of any
\* move from the start position.
PanReplayWithinRounding ==
    Panned =>
        /\ PanClose(axes_model.axes_bounds.x, SingleMove.x, pf.snapshot.x,
                    axes_model.pixel_bounds.x.size,
                    MaxDisplacement(pf.moves, pf.start, "x"))
        /\ PanClose(axes_model.axes_bounds.y, SingleMove.y, pf.snapshot.y,
                    axes_model.pixel_bounds.y.size,
                    MaxDisplacement(pf.moves, pf.start, "y"))

\* MaxMoves moves were replayed and rounding made the result differ from the
\* single move's.
PanReplayed ==
    /\ Panned
    /\ Len(pf.moves) = MaxMoves
    /\ axes_model.axes_bounds # SingleMove
    /\ axes_model.axes_bounds # pf.snapshot

\* The total pixel displacement of the last move
PanDisplacement == PixelsPointSub(last.position, pf.start)

\* range r shifted by delta * (size of range live) / (pixel size sz)
ShiftedBy(r, live, delta, sz) ==
    [base |-> r.base,
     min_to_base |-> Add(r.min_to_base, Div(Mul(delta, size_in_f64(live)), sz)),
     max_to_base |-> Add(r.max_to_base, Div(Mul(delta, size_in_f64(live)), sz))]

PanScenario ==
    /\ pf.snapshot = ExampleBounds
    /\ axes_model.pixel_bounds.x.size = F(800)
    /\ axes_model.pixel_bounds.y.size = F(600)
    /\ PanDisplacement = point(Px(80), Px(0))

\* C5: a pan move with total pixel displacement (dx, dy) leaves the X range equal
\* to the snapshot's with both ends shifted by -dx * (x range size) / (pixel
\* width) and the Y range equal to the snapshot's with both ends shifted by
\* +dy * (y range size) / (pixel height), the sizes being those of the bounds
\* before the move; with X = [0,100], Y = [0,100], pixel bounds 800 by 600 and
\* displacement (80, 0) the result is X = [-10, 90] with Y unchanged.
PanShiftsBothEnds ==
    last.op = "pan" =>
        /\ axes_model.axes_bounds.x =
               ShiftedBy(pf.snapshot.x, last.before.axes_bounds.x,
                         Neg(PanDisplacement.x), axes_model.pixel_bounds.x.size)
        /\ axes_model.axes_bounds.y =
               ShiftedBy(pf.snapshot.y, last.before.axes_bounds.y,
                         PanDisplacement.y, axes_model.pixel_bounds.y.size)
        /\ PanScenario =>
               /\ range_min(axes_model.axes_bounds.x) = F(-10)
               /\ range_max(axes_model.axes_bounds.x) = F(90)
               /\ axes_model.axes_bounds.y = pf.snapshot.y

\* The scenario's pan was made: X = [0,100] moved by 80 of 800 pixels.
PanScenarioDone ==
    /\ last.op = "pan"
    /\ PanScenario
    /\ range_min(axes_model.axes_bounds.x) = F(-10)
    /\ range_min(pf.snapshot.x) = F(0)

-----------------------------------------------------------------------------
(* Zoom steps about the cursor on an AxesModel whose scale is cached, each  *)
(* followed by the render that recomputes the scale for the same rectangle  *)

\* Most zoom steps applied to one AxesModel.
MaxZooms == 2

ZoomBounds == PanBounds
ZoomRects == PanRects
\* Cursor positions inside both rectangles
ZoomCursors ==
    {point(Px(400), Px(300)), point(Px(100), Px(500)), point(Px(30), Px(0)),
     point(Px(770), Px(570))}
\* delta with a positive zoom factor 1 + delta
ZoomDeltas == {Q(1, 10), Q(-1, 10), F(1), Q(-3, 4)}

ZoomInit ==
    /\ \E b \in ZoomBounds, rect \in ZoomRects :
          axes_model = update_scale(AxesModel_new(b), rect)
    /\ steps = 0
    /\ plot_model = PlotModel_new
    /\ plot_view = PlotView_new
    /\ last = NoOp
    /\ pf = NoOp

\* The data point under the pixel position pt
DataUnder(m, pt) ==
    point(Add(m.axes_bounds.x.base,
              transform_reverse_f64(m.axes_bounds.x, m.pixel_bounds.x, pt.x)),
          Add(m.axes_bounds.y.base,
              transform_reverse_f64(m.axes_bounds.y, m.pixel_bounds.y, pt.y)))

\* a zoom step at the cursor position pt
ZoomAt(pt, delta) ==
    /\ Running(axes_model)
    /\ steps < MaxZooms
    /\ pf.op # "zoom"
    /\ axes_model' = zoom(axes_model, pt, delta)
    /\ steps' = steps + 1
    /\ last' = [op |-> "zoom", before |-> axes_model, position |-> pt]
    /\ pf' = [op |-> "zoom", point |-> pt, data |-> DataUnder(axes_model, pt),
              delta |-> delta]
    /\ UNCHANGED <<plot_model, plot_view>>

\* the frame rendered after the step: update_scale for the same rectangle
ZoomRender ==
    /\ Running(axes_model)
    /\ pf.op = "zoom"
    /\ axes_model' = update_scale(axes_model, into_bounds(axes_model.pixel_bounds))
    /\ pf' = [pf EXCEPT !.op = "zoomed"]
    /\ UNCHANGED <<steps, last, plot_model, plot_view>>

ZoomNext ==
    \/ \E pt \in ZoomCursors, delta \in ZoomDeltas : ZoomAt(pt, delta)
    \/ ZoomRender

SpecZoom == ZoomInit /\ [][ZoomNext]_vars

Zoomed == pf.op = "zoomed"

\* Where the data point that was under the cursor is drawn now
AnchorPixel == transform_point(axes_model.axes_bounds, axes_model.pixel_bounds, pf.data)

AnchorTol(r0, r, bounds, c) ==
    Add(Ulps32(2, c),
        Ulps(8, Add(Mul(FAbs(bounds.pixels_per_element),
                        Add(Add(FAbs(r.base), Add(FAbs(r0.min_to_base), FAbs(r0.max_to_base))),
                            Add(FAbs(r.min_to_base), FAbs(r.max_to_base)))),
                    Add(FAbs(bounds.size), FAbs(bounds.min)))))

-----------------------------------------------------------------------------
(* AxisRange::new and AxisRange::union applied to chosen inputs             *)

RangeEnds == {F(0), F(10), F(20), F(100), F(-3), Q(1, 10), Q(7, 10), Q(-1, 3)}
RangeBases == {F(0), F(1000), Q(-1, 3), NaN}
UnionRanges ==
    {AxisRange_new(F(0), F(100)), AxisRange_new(Q(1, 10), Q(7, 10)),
     AxisRange_new(F(10), F(20)), AxisRange_new(Q(-1, 3), F(0))}
    \cup {new_with_base(base, min, max) :
            base \in RangeBases, min \in {F(-3), Q(1, 10)}, max \in {Q(7, 10), F(20)}}

RangeInit ==
    /\ axes_model = AxesModel_new(ExampleBounds)
    /\ steps = 0
    /\ plot_model = PlotModel_new
    /\ plot_view = PlotView_new
    /\ last = NoOp
    /\ pf = NoOp

\* AxisRange::new(min, max) for min <= max
RangeNew(min, max) ==
    /\ pf = NoOp
    /\ Le(min, max)
    /\ pf' = [op |-> "new", min |-> min, max |-> max, r |-> AxisRange_new(min, max)]
    /\ UNCHANGED <<axes_model, steps, last, plot_model, plot_view>>

\* a.union(&b)
RangeUnion(a, b) ==
    /\ pf = NoOp
    /\ pf' = [op |-> "union", a |-> a, b |-> b, r |-> union(a, b)]
    /\ UNCHANGED <<axes_model, steps, last, plot_model, plot_view>>

RangeNext ==
    \/ \E min, max \in RangeEnds : RangeNew(min, max)
    \/ \E a, b \in UnionRanges : RangeUnion(a, b)

SpecRange == RangeInit /\ [][RangeNext]_vars

\* C9 as stated: union(a, b) is Some(r) with r.min() = min(a.min(), b.min()) and
\* r.max() = max(a.max(), b.max()).
UnionCoversExactly ==
    pf.op = "union" =>
        /\ pf.r.some
        /\ range_min(pf.r.v) = FMin(range_min(pf.a), range_min(pf.b))
        /\ range_max(pf.r.v) = FMax(range_max(pf.a), range_max(pf.b))

\* No base, minimum or maximum of the range is NaN
Comparable(r) == ~IsNaN(r.base) /\ ~IsNaN(range_min(r)) /\ ~IsNaN(range_max(r))

\* C9 amended: union(a, b) is None when a base, minimum or maximum of a or b is
\* NaN; otherwise it is Some(r) with r.base the smaller base, and r.min() =
\* min(a.min(), b.min()) and r.max() = max(a.max(), b.max()) up to the rounding of
\* storing them as offsets from r.base: within 4 * 2^-F64Bits * (|r.base| + |value|).
UnionCoversWithinRounding ==
    pf.op = "union" =>
        IF Comparable(pf.a) /\ Comparable(pf.b)
        THEN /\ pf.r.some
             /\ pf.r.v.base = FMin(pf.a.base, pf.b.base)
             /\ Within(range_min(pf.r.v), FMin(range_min(pf.a), range_min(pf.b)),
                       Ulps(4, Add(FAbs(pf.r.v.base),
                                   FAbs(FMin(range_min(pf.a), range_min(pf.b))))))
             /\ Within(range_max(pf.r.v), FMax(range_max(pf.a), range_max(pf.b)),
                       Ulps(4, Add(FAbs(pf.r.v.base),
                                   FAbs(FMax(range_max(pf.a), range_max(pf.b))))))
        ELSE pf.r = None

\* Two overlapping ranges with different bases were united, the minimum coming
\* from the first and the maximum from the second, and the stored maximum is off
\* by rounding.
UnionWidened ==
    /\ pf.op = "union"
    /\ pf.r.some
    /\ pf.a.base # pf.b.base
    /\ Lt(range_min(pf.a), range_min(pf.b))
    /\ Lt(range_max(pf.a), range_max(pf.b))
    /\ range_min(pf.r.v) = range_min(pf.a)
    /\ range_max(pf.r.v) # range_max(pf.b)

\* C10: AxisRange::new(min, max) picks base = min + (max - min)/2 and stores
\* min_to_base = min - base and max_to_base = max - base, for every min <= max.
NewBaseIsMidpoint ==
    pf.op = "new" =>
        /\ pf.r.base = Add(pf.min, Div(Sub(pf.max, pf.min), F(2)))
        /\ pf.r.min_to_base = Sub(pf.min, pf.r.base)
        /\ pf.r.max_to_base = Sub(pf.max, pf.r.base)

-----------------------------------------------------------------------------
(* The scroll-zoom gesture: PlotView and PlotModel as in figure/plot.rs;    *)
(* the AxesModel side of zoom_begin / zoom / zoom_end after the design's    *)
(* description of the anchored zoom (section 4.2), in f64                   *)

RECURSIVE ExpFrom(_, _)
\* 1 + x/k * (1 + x/(k+1) * (...)), the tail of the exponential series
ExpFrom(x, k) ==
    IF k > 10 THEN F(1)
    ELSE Add(F(1), Mul(Div(x, F(k)), ExpFrom(x, k + 1)))

\* f64::exp, for the small arguments that scroll deltas add up to
Exp(x) == IF IsFinite(x) THEN ExpFrom(x, 1) ELSE x

\* ZoomState: the bounds and pixel scale at the start of the gesture, the data
\* point (as offsets from the bases) under the pointer, and the pointer's position
ZoomState(m, position) ==
    [initial_axes_bounds  |-> m.axes_bounds,
     initial_pixel_bounds |-> m.pixel_bounds,
     pivot  |-> transform_point_reverse_f64(m.axes_bounds, m.pixel_bounds, position),
     anchor |-> position]

\* Axes::zoom_begin
Axes_zoom_begin(m, position) ==
    IF m.update_type = "Fixed" THEN m
    ELSE IF m.event_processed THEN m
    ELSE [m EXCEPT !.zoom_state = Some(ZoomState(m, position))]

\* The pixel scale of the gesture start rescaled by 1 / factor
rescaled(pb, factor) ==
    [x |-> [pb.x EXCEPT !.pixels_per_element = Div(pb.x.pixels_per_element, factor)],
     y |-> [pb.y EXCEPT !.pixels_per_element = Div(pb.y.pixels_per_element, factor)]]

\* How far, in data units, the pivot is drawn from the anchor pixel under the
\* offsets min.. and the scale bounds
residual(min, pivot, bounds, anchor) ==
    Div(Sub(Add(Mul(Sub(pivot, min), bounds.pixels_per_element), bounds.min), anchor),
        bounds.pixels_per_element)

\* The corrective pass on one axis: the zoomed offsets moved by the residual
corrected(base, min, max, shift) ==
    new_with_base_f64(base, Add(min, shift), Add(max, shift))

\* The zoomed bounds: r = <<min, max>> from zoom_with_point, pb the rescaled scale
zoomed_bounds(zs, r, pb) ==
    AxesBounds_new(
        corrected(zs.initial_axes_bounds.x.base, r[1].x, r[2].x,
                  residual(r[1].x, zs.pivot.x, pb.x, zs.anchor.x)),
        corrected(zs.initial_axes_bounds.y.base, r[1].y, r[2].y,
                  residual(r[1].y, zs.pivot.y, pb.y, zs.anchor.y)))

\* Axes::zoom(factor) once the zoom state zs is known to be set
zoom_from(m, zs, factor) ==
    [m EXCEPT !.axes_bounds =
                  zoomed_bounds(zs,
                                zoom_with_point(zs.pivot,
                                                min_point_f64(zs.initial_axes_bounds),
                                                max_point_f64(zs.initial_axes_bounds),
                                                factor),
                                rescaled(zs.initial_pixel_bounds, factor)),
              !.pixel_bounds = rescaled(zs.initial_pixel_bounds, factor)]

\* Axes::zoom(factor)
Axes_zoom(m, factor) ==
    IF m.event_processed THEN m
    ELSE IF ~m.zoom_state.some THEN m
    ELSE zoom_from(m, m.zoom_state.v, factor)

\* Axes::zoom_end
Axes_zoom_end(m) ==
    IF m.event_processed THEN m
    ELSE [m EXCEPT !.zoom_state = None]

\* for axes in self.axes.iter_mut(): the AxesModel m after the call on each of
\* its registrations (at most two), once and twice being m after one and two calls
each_axes(axes, m, once, twice) ==
    IF Len(axes) = 0 THEN m
    ELSE IF Len(axes) = 1 THEN once
    ELSE twice

\* PlotModel::add_axes
add_axes(pm) == [pm EXCEPT !.axes = Append(pm.axes, "axes")]

\* PlotModel::add_axes_plotters: a PlottersModel around the same AxesModel
add_axes_plotters(pm) == [pm EXCEPT !.axes = Append(pm.axes, "plotters")]

\* A PlotView with its PlotModel and the AxesModel registered in it
World(pv, pm, m) == [plot_view |-> pv, plot_model |-> pm, axes_model |-> m]

\* PlotModel::zoom_begin
PlotModel_zoom_begin(w, position) ==
    IF w.plot_model.zooming THEN w
    ELSE [w EXCEPT !.plot_model.zooming = TRUE,
                   !.axes_model = each_axes(w.plot_model.axes, w.axes_model,
                                            Axes_zoom_begin(w.axes_model, position),
                                            Axes_zoom_begin(Axes_zoom_begin(w.axes_model, position), position))]

\* PlotModel::zoom
PlotModel_zoom(w, factor) ==
    IF ~w.plot_model.zooming THEN w
    ELSE [w EXCEPT !.axes_model = each_axes(w.plot_model.axes, w.axes_model,
                                            Axes_zoom(w.axes_model, factor),
                                            Axes_zoom(Axes_zoom(w.axes_model, factor), factor))]

\* PlotModel::zoom_end
PlotModel_zoom_end(w) ==
    IF ~w.plot_model.zooming THEN w
    ELSE [w EXCEPT !.plot_model.zooming = FALSE,
                   !.axes_model = each_axes(w.plot_model.axes, w.axes_model,
                                            Axes_zoom_end(w.axes_model),
                                            Axes_zoom_end(Axes_zoom_end(w.axes_model)))]

\* Duration::from_secs_f32(0.2): the literal is an f32, the f32 nearest to 0.2
idle_limit == AsF32(Q(1, 5))

\* last_time.elapsed() > Duration::from_secs_f32(0.2), elapsed in seconds
timed_out(elapsed) == Gt(elapsed, idle_limit)

\* try_clean_zoom without the reset of acc_zoom_in
try_clean_zoom_keeps_acc(w, elapsed) ==
    IF w.plot_view.last_zoom_ts.some /\ timed_out(elapsed)
    THEN [PlotModel_zoom_end(w) EXCEPT !.plot_view.last_zoom_ts = None]
    ELSE w

\* PlotView::try_clean_zoom
\* elapsed: last_time.elapsed() at the time of the call, in seconds
try_clean_zoom(w, elapsed) ==
    IF w.plot_view.last_zoom_ts.some /\ timed_out(elapsed)
    THEN [PlotModel_zoom_end(w) EXCEPT !.plot_view.last_zoom_ts = None,
                                       !.plot_view.acc_zoom_in = Zero]
    ELSE w

\* The start of PlotView::zoom: try_clean_zoom, and zoom_begin for a new gesture
zoom_entered(w, zoom_point) ==
    IF ~w.plot_view.last_zoom_ts.some THEN PlotModel_zoom_begin(w, zoom_point) ELSE w

\* The end of PlotView::zoom with the factor taken from this event's delta alone
zoom_stepped_alone(w, zoom_in) ==
    PlotModel_zoom([w EXCEPT !.plot_view.last_zoom_ts = Some("ts"),
                             !.plot_view.acc_zoom_in = Add(w.plot_view.acc_zoom_in, zoom_in)],
                   Exp(zoom_in))

\* The end of PlotView::zoom: the time stamp, the accumulated delta and the zoom
zoom_stepped(w, zoom_in) ==
    PlotModel_zoom([w EXCEPT !.plot_view.last_zoom_ts = Some("ts"),
                             !.plot_view.acc_zoom_in = Add(w.plot_view.acc_zoom_in, zoom_in)],
                   Exp(Add(w.plot_view.acc_zoom_in, zoom_in)))

\* PlotView::zoom
PlotView_zoom(w, zoom_point, zoom_in, elapsed) ==
    zoom_stepped(zoom_entered(try_clean_zoom(w, elapsed), zoom_point), zoom_in)

\* PlotModel::zoom_scroll_precision
zoom_scroll_precision == Div(F(1), F(100))

\* on_scroll_wheel for ScrollDelta::Lines(l)
on_scroll_wheel(w, position, l_y, elapsed) ==
    PlotView_zoom(w, position, Mul(l_y, zoom_scroll_precision), elapsed)

\* on_mouse_down(MouseButton::Right)
on_right_down(w, position, elapsed) ==
    PlotModel_zoom_begin([try_clean_zoom(w, elapsed) EXCEPT !.plot_view.last_zoom_rb = Some(position)],
                         position)

\* on_mouse_up(MouseButton::Right)
on_right_up(w) == PlotModel_zoom_end([w EXCEPT !.plot_view.last_zoom_rb = None])

\* PlotModel::pan_begin without the test of the panning flag
PlotModel_pan_begin_unguarded(w, position) ==
    [w EXCEPT !.plot_model.panning = TRUE,
              !.axes_model = each_axes(w.plot_model.axes, w.axes_model,
                                       pan_begin(w.axes_model, position),
                                       pan_begin(pan_begin(w.axes_model, position), position))]

\* PlotModel::update
PlotModel_update(w) ==
    [w EXCEPT !.axes_model = each_axes(w.plot_model.axes, w.axes_model,
                                       update(w.axes_model), update(update(w.axes_model)))]

\* PlotModel::pan_begin
PlotModel_pan_begin(w, position) ==
    IF w.plot_model.panning THEN w
    ELSE [w EXCEPT !.plot_model.panning = TRUE,
                   !.axes_model = each_axes(w.plot_model.axes, w.axes_model,
                                            pan_begin(w.axes_model, position),
                                            pan_begin(pan_begin(w.axes_model, position), position))]

\* PlotModel::pan
PlotModel_pan(w, position) ==
    IF ~w.plot_model.panning THEN w
    ELSE [w EXCEPT !.axes_model = each_axes(w.plot_model.axes, w.axes_model,
                                            pan(w.axes_model, position),
                                            pan(pan(w.axes_model, position), position))]

\* PlotModel::pan_end that leaves the panning flag set
PlotModel_pan_end_still_panning(w) ==
    IF ~w.plot_model.panning THEN w
    ELSE [w EXCEPT !.axes_model = each_axes(w.plot_model.axes, w.axes_model,
                                            pan_end(w.axes_model),
                                            pan_end(pan_end(w.axes_model)))]

\* PlotModel::pan_end
PlotModel_pan_end(w) ==
    IF ~w.plot_model.panning THEN w
    ELSE [w EXCEPT !.plot_model.panning = FALSE,
                   !.axes_model = each_axes(w.plot_model.axes, w.axes_model,
                                            pan_end(w.axes_model),
                                            pan_end(pan_end(w.axes_model)))]

\* PlotModel::zoom_rubberband_precision
zoom_rubberband_precision == Div(F(1), F(400))

\* The factor of zoom_rubberband for the pointer at zoom_point
rubberband_factor(zoom_point, last_zoom_point) ==
    Exp(Mul(Neg(Sub32(zoom_point.y, last_zoom_point.y)), zoom_rubberband_precision))

\* PlotView::zoom_rubberband
zoom_rubberband(w, zoom_point) ==
    IF ~w.plot_view.last_zoom_rb.some THEN w
    ELSE PlotModel_zoom(w, rubberband_factor(zoom_point, w.plot_view.last_zoom_rb.v))

\* on_mouse_down(MouseButton::Left)
on_left_down(w, position) == PlotModel_pan_begin(w, position)

\* on_mouse_move, pressed_button being "Left", "Right" or "None"
on_mouse_move(w, pressed_button, position) ==
    IF pressed_button = "Left" THEN PlotModel_pan(w, position)
    ELSE IF pressed_button = "Right" THEN zoom_rubberband(w, position)
    ELSE w

\* on_mouse_up(MouseButton::Left)
on_left_up(w) == PlotModel_pan_end(w)

\* Most scroll events in a run.
MaxScrolls == 2

GestureBounds ==
    {ExampleBounds,
     AxesBounds_new(AxisRange_new(Q(1, 10), Q(7, 10)), AxisRange_new(Q(-1, 3), Q(7, 10)))}
GestureRects == {Bounds(Px(30), Px(0), Px(740), Px(570))}
GesturePositions == {point(Px(400), Px(300)), point(Px(100), Px(500))}
\* l.y of ScrollDelta::Lines(l)
ScrollLines == {F(1), F(-1), F(3)}
\* last_time.elapsed() when a handler runs, in seconds: 0.1 s, the f32 nearest
\* to 0.2 s and 0.3 s
Elapsed == {Q(1, 10), AsF32(Q(1, 5)), Q(3, 10)}
\* The same within and after a gesture: 0.1 s and 0.3 s
GestureElapsed == {Q(1, 10), Q(3, 10)}

GestureInit ==
    /\ \E b \in GestureBounds, rect \in GestureRects :
          axes_model = update_scale(AxesModel_new(b), rect)
    /\ steps = 0
    /\ plot_model = add_axes(PlotModel_new)
    /\ plot_view = PlotView_new
    /\ last = NoOp
    /\ pf = NoOp

TheWorld == World(plot_view, plot_model, axes_model)

\* Whether the next scroll event begins a new gesture
BeginsGesture(elapsed) == ~plot_view.last_zoom_ts.some \/ timed_out(elapsed)

\* The world after a handler
Becomes(w) ==
    /\ plot_view' = w.plot_view
    /\ plot_model' = w.plot_model
    /\ axes_model' = w.axes_model

\* on_scroll_wheel
Scroll(position, l_y, elapsed) ==
    /\ steps < MaxScrolls
    /\ steps' = steps + 1
    /\ Becomes(on_scroll_wheel(TheWorld, position, l_y, elapsed))
    /\ last' = [op |-> "scroll", before |-> axes_model]
    /\ pf' = IF BeginsGesture(elapsed)
             THEN [op |-> "gesture", snapshot |-> axes_model, position |-> position,
                   deltas |-> <<Mul(l_y, zoom_scroll_precision)>>]
             ELSE [pf EXCEPT !.deltas = Append(pf.deltas, Mul(l_y, zoom_scroll_precision))]

\* The render pass on the world w: try_clean_zoom, new_render, and update_scale
\* for the rectangle painted before
rendered(w) ==
    [w EXCEPT !.axes_model =
        update_scale(new_render(w.axes_model), into_bounds(w.axes_model.pixel_bounds))]

\* PlotView::render and the paint that follows
GestureRender(elapsed) ==
    /\ last.op = "scroll"
    /\ Becomes(rendered(try_clean_zoom(TheWorld, elapsed)))
    /\ last' = [op |-> "render", before |-> axes_model]
    /\ pf' = IF BeginsGesture(elapsed) THEN NoOp ELSE pf
    /\ UNCHANGED steps

GestureNext ==
    \/ \E position \in GesturePositions, l_y \in ScrollLines, elapsed \in GestureElapsed :
          Scroll(position, l_y, elapsed)
    \/ \E elapsed \in GestureElapsed : GestureRender(elapsed)

SpecGesture == GestureInit /\ [][GestureNext]_vars

InGesture == pf.op = "gesture"

RECURSIVE SumDeltas(_, _)
\* acc += d for each of the deltas, in order
SumDeltas(deltas, acc) ==
    IF deltas = <<>> THEN acc
    ELSE SumDeltas(Tail(deltas), Add(acc, Head(deltas)))

GestureAcc == SumDeltas(pf.deltas, Zero)

\* The data point under the gesture's first pointer position, as offsets
GesturePivot ==
    transform_point_reverse_f64(pf.snapshot.axes_bounds, pf.snapshot.pixel_bounds,
                                pf.position)

\* <<min, max>> of the snapshot zoomed about the pivot by exp(d1 + ... + dk)
SnapshotZoomed ==
    zoom_with_point(GesturePivot, min_point_f64(pf.snapshot.axes_bounds),
                    max_point_f64(pf.snapshot.axes_bounds), Exp(GestureAcc))

GestureTol(r, r0, p, bounds) ==
    Ulps(16, Add(Add(Add(FAbs(r.min_to_base), FAbs(r.max_to_base)),
                     Add(FAbs(r0.min_to_base), FAbs(r0.max_to_base))),
                 Add(FAbs(p),
                     Div(Mul(Add(FAbs(bounds.min), FAbs(bounds.max)),
                             FAbs(size_in_f64(r))),
                         bounds.size))))

CloseBy(r, min, max, tol) ==
    /\ Within(r.min_to_base, min, tol)
    /\ Within(r.max_to_base, max, tol)

GestureClose(r, min, max, r0, p, bounds) ==
    CloseBy(r, min, max, GestureTol(r, r0, p, bounds))

\* The axes_bounds one zoom from the snapshot by exp(d1 + ... + dk) gives
SingleZoom ==
    Axes_zoom(Axes_zoom_begin(pf.snapshot, pf.position), Exp(GestureAcc)).axes_bounds

\* The live bounds ab against the zoomed snapshot <<min, max>> = z, and against the
\* snapshot itself when the accumulated delta acc is zero
GestureAgrees(ab, ab0, pb, pivot, z, acc) ==
    /\ GestureClose(ab.x, z[1].x, z[2].x, ab0.x, pivot.x, pb.x)
    /\ GestureClose(ab.y, z[1].y, z[2].y, ab0.y, pivot.y, pb.y)
    /\ acc = Zero =>
          /\ GestureClose(ab.x, ab0.x.min_to_base, ab0.x.max_to_base, ab0.x, pivot.x, pb.x)
          /\ GestureClose(ab.y, ab0.y.min_to_base, ab0.y.max_to_base, ab0.y, pivot.y, pb.y)

-----------------------------------------------------------------------------
(* AxisRange::iter_step_by and iter_step_by_f64: the iterator is the closure's *)
(* captured `current`; each call of next() is one step.                        *)

\* Most items taken from one iterator.
MaxYield == 6
\* Most iterators made from one range.
MaxIters == 2

\* Ranges with min <= max; the last one's ends are so large that a step of 1 is
\* below the spacing of the f64 values there
IterRanges ==
    {new_with_base(F(0), F(0), F(3)), AxisRange_new(F(1), F(4)),
     new_with_base(Zero, Q(1, 10), Q(1, 2)),
     new_with_base(Zero, F(2 ^ F64Bits), F(2 ^ F64Bits + 4))}
IterSteps == {F(1), Q(1, 10), Q(3, 2), Zero, F(-1)}
IterKinds == {"step_by", "step_by_f64"}

\* The iterator the range gives for the kind of call
IterOf(kind, r, step) ==
    IF kind = "step_by" THEN iter_step_by(r, step) ELSE iter_step_by_f64(r, step)

IterInit ==
    /\ axes_model = AxesModel_new(ExampleBounds)
    /\ steps = 0
    /\ plot_model = PlotModel_new
    /\ plot_view = PlotView_new
    /\ last = NoOp
    /\ \E kind \in IterKinds, r \in IterRanges, step \in IterSteps :
          pf = [op |-> "iter", it |-> IterOf(kind, r, step), yielded |-> <<>>,
                done |-> FALSE, iters |-> 1]

\* next() on the iterator
IterNextItem ==
    /\ pf.op = "iter"
    /\ ~pf.done
    /\ Len(pf.yielded) < MaxYield
    /\ pf' = [pf EXCEPT !.it = iter_next(pf.it).it,
                        !.yielded = IF iter_next(pf.it).item.some
                                    THEN Append(pf.yielded, iter_next(pf.it).item.v)
                                    ELSE pf.yielded,
                        !.done = ~iter_next(pf.it).item.some]
    /\ UNCHANGED <<axes_model, steps, last, plot_model, plot_view>>

\* A fresh call of iter_step_by / iter_step_by_f64 on the same range
IterAgain ==
    /\ pf.op = "iter"
    /\ pf.iters < MaxIters
    /\ pf.yielded # <<>> \/ pf.done
    /\ pf' = [pf EXCEPT !.it = IterOf(pf.it.kind, pf.it.r, pf.it.step),
                        !.yielded = <<>>, !.done = FALSE, !.iters = pf.iters + 1]
    /\ UNCHANGED <<axes_model, steps, last, plot_model, plot_view>>

IterNext == IterNextItem \/ IterAgain

SpecIter == IterInit /\ [][IterNext]_vars

\* The k-th value min + k * step of the range
Multiple(r, step, k) == Add(range_min(r), Mul(F(k), step))

\* C11: for a range with min <= max and a positive step the items are exactly
\* min + k * step for k = 0, 1, 2, ... that are <= max, strictly increasing and
\* ending once the next one is above max, and a fresh iterator starts from min.
IterYieldsMultiples ==
    (/\ pf.op = "iter"
     /\ Gt(pf.it.step, Zero)
     /\ Le(range_min(pf.it.r), range_max(pf.it.r))) =>
        /\ \A i \in 1..Len(pf.yielded) :
              /\ pf.yielded[i] = Multiple(pf.it.r, pf.it.step, i - 1)
              /\ Le(pf.yielded[i], range_max(pf.it.r))
              /\ i > 1 => Lt(pf.yielded[i - 1], pf.yielded[i])
        /\ pf.done => Gt(Multiple(pf.it.r, pf.it.step, Len(pf.yielded)), range_max(pf.it.r))

\* C12: with a zero or negative step the step is rejected: the iterator yields
\* no item, so consuming it ends at once.
IterRejectsNonPositiveStep ==
    (pf.op = "iter" /\ ~Gt(pf.it.step, Zero)) => pf.yielded = <<>>

-----------------------------------------------------------------------------
(* The grid of one AxesModel across paints, pans, zooms and updates         *)

\* Most operations after the first paint in a run of the grid.
MaxGridSteps == 3

GridBounds ==
    {ExampleBounds,
     AxesBounds_new(AxisRange_new(Q(1, 10), Q(7, 10)), AxisRange_new(Q(-1, 3), Q(7, 10)))}
Grids ==
    {from_numbers(3, 4), with_fixed(from_numbers(3, 4)), from_numbers(7, 10),
     from_density(F(25), F(30)), with_fixed(from_density(F(25), F(30)))}
GridRect == Bounds(Px(0), Px(0), Px(800), Px(600))
GridDown == point(Px(100), Px(100))
GridMoves == {point(Px(180), Px(100)), point(Px(137), Px(211))}
GridCursor == point(Px(100), Px(500))
GridDeltas == {Q(1, 10), Q(-1, 2)}
GridElements ==
    {[kind |-> "line", points |-> <<point(F(0), F(2)), point(F(10), F(-3)), point(F(4), F(7))>>],
     [kind |-> "line", points |-> <<point(F(150), Q(1, 10))>>]}

\* One frame: Axes::new_render, then render_pixels' update_scale
painted(m, rect) == update_scale(new_render(m), rect)

\* AxesViewer::paint, as far as the model goes: the grid is recomputed when
\* should_update_grid says so
paint(m) ==
    IF should_update_grid(m.grid)
    THEN [m EXCEPT !.grid = update_grid(m.grid, m.axes_bounds)]
    ELSE m

\* AxesViewer::render_pixels, shrunk_bounds being the bounds less the border
render_pixels(m, shrunk_bounds) == paint(update_scale(m, shrunk_bounds))

\* The model after construction and its first frame
GridInit ==
    /\ \E b \in GridBounds, g \in Grids :
          axes_model = painted(AxesModel_new_with(b, g), GridRect)
    /\ steps = 0
    /\ plot_model = PlotModel_new
    /\ plot_view = PlotView_new
    /\ last = NoOp
    /\ pf = NoOp

\* What every operation of the run records
GridStep(op) ==
    /\ Running(axes_model)
    /\ steps < MaxGridSteps
    /\ steps' = steps + 1
    /\ last' = [op |-> op, before |-> axes_model]
    /\ UNCHANGED <<pf, plot_model, plot_view>>

\* self.model.grid.update_grid(cx1)
GridUpdateGrid ==
    /\ GridStep("update_grid")
    /\ axes_model' = [axes_model EXCEPT !.grid = update_grid(axes_model.grid,
                                                            axes_model.axes_bounds)]

GridPaint ==
    /\ GridStep("paint")
    /\ axes_model' = painted(axes_model, GridRect)

GridRenderPixels ==
    /\ GridStep("render_pixels")
    /\ axes_model' = render_pixels(axes_model, GridRect)

GridPanBegin ==
    /\ GridStep("pan_begin")
    /\ ~axes_model.pan_state.some
    /\ axes_model' = pan_begin(axes_model, GridDown)

GridPan(position) ==
    /\ GridStep("pan")
    /\ axes_model.pan_state.some
    /\ axes_model' = pan(axes_model, position)

GridPanEnd ==
    /\ GridStep("pan_end")
    /\ axes_model.pan_state.some
    /\ axes_model' = pan_end(axes_model)

GridZoom(delta) ==
    /\ GridStep("zoom")
    /\ axes_model' = zoom(axes_model, GridCursor, delta)

GridPlot(element) ==
    /\ GridStep("plot")
    /\ axes_model.elements = <<>>
    /\ axes_model' = plot(axes_model, element)

GridUpdate ==
    /\ GridStep("update")
    /\ axes_model.elements # <<>>
    /\ axes_model' = update(axes_model)

GridNext ==
    \/ GridUpdateGrid
    \/ GridPaint
    \/ GridRenderPixels
    \/ GridPanBegin
    \/ \E position \in GridMoves : GridPan(position)
    \/ GridPanEnd
    \/ \E delta \in GridDeltas : GridZoom(delta)
    \/ \E element \in GridElements : GridPlot(element)
    \/ GridUpdate

SpecGrid == GridInit /\ [][GridNext]_vars

\* floor of a finite value, as an integer
FloorOf(a) == IF a.e >= 0 THEN a.m * 2 ^ a.e ELSE a.m \div 2 ^ (-a.e)

\* floor(size / spacing) + 1 for the range r and the spacing s
LineCount(r, s) == FloorOf(Div(difference(r), s)) + 1

\* The spacing s is large against the rounding of the line positions of the
\* range r: (lines + 1) * 2^-F64Bits * max(|min|, |max|) <= s / 4
Resolved(r, s) ==
    Le(Mul(F(LineCount(r, s) + 1), Ulps(1, FMax(FAbs(range_min(r)), FAbs(range_max(r))))),
       Div(s, F(4)))

\* A range with min < max and a positive, finite spacing
Spaced(r, s) == Lt(range_min(r), range_max(r)) /\ Gt(s, Zero) /\ IsFinite(s)

\* The lines lie within the range r and are strictly increasing
LinesOrdered(lines, r) ==
    \A i \in 1..Len(lines) :
        /\ in_range(r, lines[i])
        /\ i > 1 => Lt(lines[i - 1], lines[i])

\* The target count of the grid type on an axis, 0 for a Density
TargetX(ty) == IF ty.kind = "Numbers" THEN ty.x ELSE 0
TargetY(ty) == IF ty.kind = "Numbers" THEN ty.y ELSE 0

\* The lines of one axis as C13 states them: floor(size/spacing) + 1 of them,
\* n + 1 for a target count n
LinesExact(lines, r, s, n) ==
    Spaced(r, s) =>
        /\ LinesOrdered(lines, r)
        /\ Len(lines) = LineCount(r, s)
        /\ n # 0 => Len(lines) = n + 1

\* The lines of one axis up to the rounding of the last one
LinesRounded(lines, r, s, n) ==
    (Spaced(r, s) /\ Resolved(r, s)) =>
        /\ LinesOrdered(lines, r)
        /\ Len(lines) \in (LineCount(r, s) - 1)..(LineCount(r, s) + 1)
        /\ (n # 0 /\ 4 * n <= 2 ^ F32Bits) => Len(lines) \in {n, n + 1}

\* update_grid has just returned
GridUpdated == last.op = "update_grid" /\ Running(axes_model)

\* The two axes of the model m with the density d its grid resolves
GridExactFor(m, d) ==
    /\ LinesExact(m.grid.grid_x_lines, m.axes_bounds.x, d.width, TargetX(m.grid.ty))
    /\ LinesExact(m.grid.grid_y_lines, m.axes_bounds.y, d.height, TargetY(m.grid.ty))

GridRoundedFor(m, d) ==
    /\ LinesRounded(m.grid.grid_x_lines, m.axes_bounds.x, d.width, TargetX(m.grid.ty))
    /\ LinesRounded(m.grid.grid_y_lines, m.axes_bounds.y, d.height, TargetY(m.grid.ty))

\* C13 as stated: immediately after update_grid on bounds with min < max and a
\* positive spacing, on each axis every grid line lies within [min, max], the
\* lines are strictly increasing, and their number is floor(size/spacing) + 1
\* (n + 1 for Numbers(n)).
GridLinesExact ==
    GridUpdated =>
        GridExactFor(axes_model, grid_density(axes_model.grid.ty, axes_model.axes_bounds))

\* C13 amended: immediately after update_grid on bounds with min < max and a
\* positive finite spacing that is large against the rounding of the positions
\* ((lines + 1) * 2^-F64Bits * max(|min|, |max|) <= spacing / 4), on each axis
\* every grid line lies within [min, max], the lines are strictly increasing,
\* and their number is floor(size/spacing) + 1 give or take one: n or n + 1 for
\* Numbers(n) with n <= 2^(F32Bits - 2), whose spacing is size/n rounded to f32.
GridLinesRounded ==
    GridUpdated =>
        GridRoundedFor(axes_model, grid_density(axes_model.grid.ty, axes_model.axes_bounds))

\* update_grid returned n lines, not n + 1, for a target count n on the x axis
GridLineShort ==
    /\ GridUpdated
    /\ axes_model.grid.ty.kind = "Numbers"
    /\ Spaced(axes_model.axes_bounds.x,
              grid_density(axes_model.grid.ty, axes_model.axes_bounds).width)
    /\ Resolved(axes_model.axes_bounds.x,
                grid_density(axes_model.grid.ty, axes_model.axes_bounds).width)
    /\ Len(axes_model.grid.grid_x_lines) = axes_model.grid.ty.x

\* Every line of the sequence lies within the range r
LinesVisible(lines, r) == \A i \in 1..Len(lines) : in_range(r, lines[i])

\* The cached lines of the model m are those the grid g, freshly derived from
\* the bounds of m, holds
GridFollows(m, g) ==
    /\ ~g.hung => /\ m.grid.grid_x_lines = g.grid_x_lines
                  /\ m.grid.grid_y_lines = g.grid_y_lines
    /\ LinesVisible(m.grid.grid_x_lines, m.axes_bounds.x)
    /\ LinesVisible(m.grid.grid_y_lines, m.axes_bounds.y)

\* C14: after every bounds-changing interaction (a pan step, a zoom step or
\* update) and by the next paint, the cached grid lines are those derived from
\* the new axes_bounds, so every cached grid line lies within the currently
\* visible range on its axis.
GridLinesFollowBounds ==
    (last.op = "paint" /\ Running(axes_model)) =>
        GridFollows(axes_model, update_grid(axes_model.grid, axes_model.axes_bounds))

\* Both line lists of the grid g hold lines
BothListed(g) == g.grid_x_lines # <<>> /\ g.grid_y_lines # <<>>

\* The lines of the grid g are those of the grid of
SameLines(g, of) ==
    g.grid_x_lines = of.grid_x_lines /\ g.grid_y_lines = of.grid_y_lines

\* C25: should_update_grid returns true exactly when the grid is not movable
\* or at least one of grid_x_lines and grid_y_lines is empty: a movable grid
\* (the default) with both line lists non-empty is never recomputed by the
\* lazy path, and a grid built with with_fixed is recomputed on every paint.
LazyGridUpdate ==
    /\ should_update_grid(axes_model.grid) <=>
           (~axes_model.grid.movable \/ ~BothListed(axes_model.grid))
    /\ (last.op \in {"paint", "render_pixels"} /\ last.before.grid.movable
                                               /\ BothListed(last.before.grid)) =>
           SameLines(axes_model.grid, last.before.grid)
    /\ (last.op \in {"paint", "render_pixels"} /\ ~last.before.grid.movable) =>
           axes_model.grid = update_grid(last.before.grid, last.before.axes_bounds)

\* The paint of a movable grid kept lines that a zoom had made stale: update_grid
\* would have given other lines for the bounds
StaleGridKept ==
    /\ last.op = "render_pixels"
    /\ last.before.grid.movable
    /\ BothListed(last.before.grid)
    /\ SameLines(axes_model.grid, last.before.grid)
    /\ ~SameLines(update_grid(last.before.grid, last.before.axes_bounds), last.before.grid)

\* The pan step handled last left what a pan does not touch: the pixel bounds
\* and the element list
PanFrameKept ==
    /\ axes_model.pixel_bounds = last.before.pixel_bounds
    /\ axes_model.elements = last.before.elements

\* The range r has the base and the size of the range of
SameBaseAndSize(r, of) ==
    r.base = of.base /\ size_in_f64(r) = size_in_f64(of)

\* The range r has the base of the range of and its size within the rounding of
\* the two additions of impl Add<f64> for AxisRange
ShiftOf(r, of) ==
    /\ r.base = of.base
    /\ Within(size_in_f64(r), size_in_f64(of),
              Ulps(4, Add(Add(FAbs(r.min_to_base), FAbs(r.max_to_base)),
                          FAbs(size_in_f64(of)))))

\* C23: a pan step is an additive shift of both offsets only: it changes
\* neither the size (max_to_base - min_to_base) of either axis range of the
\* live axes_bounds, nor either base, nor pixel_bounds or the element list,
\* whatever operations (including zoom steps) were interleaved since pan_begin.
PanKeepsLiveSize ==
    last.op = "pan" =>
        /\ SameBaseAndSize(axes_model.axes_bounds.x, last.before.axes_bounds.x)
        /\ SameBaseAndSize(axes_model.axes_bounds.y, last.before.axes_bounds.y)
        /\ PanFrameKept

\* C23 amended: a pan step is an additive shift of both offsets of the
\* gesture-start snapshot: it changes neither pixel_bounds nor the element
\* list and leaves each axis range with the base of the snapshot and, within
\* the rounding of the two additions, the size of the snapshot, whatever
\* operations were interleaved since pan_begin.
PanKeepsSnapshotSize ==
    last.op = "pan" =>
        /\ ShiftOf(axes_model.axes_bounds.x,
                   last.before.pan_state.v.initial_axes_bounds.x)
        /\ ShiftOf(axes_model.axes_bounds.y,
                   last.before.pan_state.v.initial_axes_bounds.y)
        /\ PanFrameKept

\* A pan step followed a zoom step made since pan_begin, and gave the range
\* back the size it had at pan_begin
PanAfterZoom ==
    /\ last.op = "pan"
    /\ last.before.axes_bounds # last.before.pan_state.v.initial_axes_bounds
    /\ size_in_f64(last.before.axes_bounds.x) #
           size_in_f64(last.before.pan_state.v.initial_axes_bounds.x)
    /\ size_in_f64(axes_model.axes_bounds.x) =
           size_in_f64(last.before.pan_state.v.initial_axes_bounds.x)
    /\ axes_model.axes_bounds # last.before.pan_state.v.initial_axes_bounds

-----------------------------------------------------------------------------
(* Idle scroll-zoom gestures: scroll events, renders and the right button,  *)
(* each handler running some time after the last scroll-zoom event          *)

\* Most events handled in a run.
MaxEvents == 4

IdleLines == {F(3)}

IdleInit ==
    /\ axes_model = painted(AxesModel_new(ExampleBounds), GridRect)
    /\ steps = 0
    /\ plot_model = add_axes(PlotModel_new)
    /\ plot_view = PlotView_new
    /\ last = NoOp
    /\ pf = [op |-> "idle", overdue |-> FALSE, cleaned |-> FALSE]

\* One event: the handler op runs on the world, elapsed after the last zoom
\* event; pf tells whether an idle gesture has been met since the last scroll
\* event, idle for more than 0.2 s (overdue) or for the code (cleaned)
IdleEvent(op, position, zoom_in, elapsed, overdue) ==
    /\ steps < MaxEvents
    /\ steps' = steps + 1
    /\ last' = [op |-> op, before |-> TheWorld, position |-> position, zoom_in |-> zoom_in,
                elapsed |-> elapsed, overdue |-> pf.overdue, cleaned |-> pf.cleaned]
    /\ pf' = IF op = "scroll" THEN [pf EXCEPT !.overdue = FALSE, !.cleaned = FALSE]
             ELSE IF op = "right_up" \/ ~plot_view.last_zoom_ts.some THEN pf
             ELSE [pf EXCEPT !.overdue = pf.overdue \/ overdue,
                             !.cleaned = pf.cleaned \/ timed_out(elapsed)]

\* More than 0.2 s, exactly
OverFifth(d) == d.k = "fin" /\ (IF d.e >= 0 THEN d.m > 0 ELSE 5 * d.m > 2 ^ (-d.e))

IdleScroll(position, l_y, elapsed) ==
    /\ IdleEvent("scroll", position, Mul(l_y, zoom_scroll_precision), elapsed, OverFifth(elapsed))
    /\ Becomes(on_scroll_wheel(TheWorld, position, l_y, elapsed))

IdleRender(elapsed) ==
    /\ last.op # "render"
    /\ IdleEvent("render", point(Px(0), Px(0)), Zero, elapsed, OverFifth(elapsed))
    /\ Becomes(rendered(try_clean_zoom(TheWorld, elapsed)))

IdleRightDown(position, elapsed) ==
    /\ ~plot_view.last_zoom_rb.some
    /\ IdleEvent("right_down", position, Zero, elapsed, OverFifth(elapsed))
    /\ Becomes(on_right_down(TheWorld, position, elapsed))

IdleRightUp ==
    /\ plot_view.last_zoom_rb.some
    /\ IdleEvent("right_up", point(Px(0), Px(0)), Zero, Zero, FALSE)
    /\ Becomes(on_right_up(TheWorld))

IdleNext ==
    \/ \E position \in GesturePositions, l_y \in IdleLines, elapsed \in Elapsed :
          IdleScroll(position, l_y, elapsed)
    \/ \E elapsed \in Elapsed : IdleRender(elapsed)
    \/ \E position \in GesturePositions, elapsed \in Elapsed : IdleRightDown(position, elapsed)
    \/ IdleRightUp

SpecIdle == IdleInit /\ [][IdleNext]_vars

\* The handler of the last event met a scroll-zoom gesture, idle or not
MetGesture == last.op \in {"render", "scroll", "right_down"} /\ last.before.plot_view.last_zoom_ts.some

\* The axes hold a gesture begun at the position of the last event, from the
\* bounds they had before it
AnchoredHere ==
    /\ plot_model.zooming
    /\ axes_model.zoom_state.some
    /\ axes_model.zoom_state.v.anchor = last.position
    /\ axes_model.zoom_state.v.initial_axes_bounds = last.before.axes_model.axes_bounds

\* What the handler of the last event leaves when it has cleared the gesture
\* before doing anything else
ClearedFirst ==
    /\ last.op = "render" =>
           /\ ~plot_view.last_zoom_ts.some
           /\ plot_view.acc_zoom_in = Zero
           /\ ~plot_model.zooming
           /\ ~axes_model.zoom_state.some
    /\ last.op = "right_down" =>
           /\ ~plot_view.last_zoom_ts.some
           /\ plot_view.acc_zoom_in = Zero
           /\ AnchoredHere
    /\ last.op = "scroll" =>
           /\ plot_view.last_zoom_ts.some
           /\ plot_view.acc_zoom_in = last.zoom_in
           /\ AnchoredHere

\* The scroll event handled last began a gesture of its own
ScrollBeganGesture == plot_view.acc_zoom_in = last.zoom_in /\ AnchoredHere

\* C15: once more than 0.2 s have passed since the last scroll-zoom event, the
\* next render, scroll event or right-button-down ends the zoom, sets
\* last_zoom_ts to None and resets acc_zoom_in to 0 before doing anything else,
\* so the next scroll event begins a new gesture anchored at its own pointer
\* position.
IdleGestureClears ==
    /\ (MetGesture /\ OverFifth(last.elapsed)) => ClearedFirst
    /\ (last.op = "scroll" /\ last.overdue) => ScrollBeganGesture

\* C15 amended: once more than Duration::from_secs_f32(0.2), 0.2 s rounded to
\* f32, have passed since the last scroll-zoom event, the next render, scroll
\* event or right-button-down ends the zoom, sets last_zoom_ts to None and
\* resets acc_zoom_in to 0 before doing anything else, so the next scroll
\* event begins a new gesture anchored at its own pointer position unless a
\* right-button gesture begun in between is still in progress.
IdleGestureClearsInTime ==
    /\ (MetGesture /\ timed_out(last.elapsed)) => ClearedFirst
    /\ (last.op = "scroll" /\ last.cleaned /\ ~last.before.plot_model.zooming) =>
           ScrollBeganGesture

\* A scroll event found a gesture idle for the code and began one of its own
IdleScrollRestarted ==
    /\ last.op = "scroll"
    /\ MetGesture
    /\ timed_out(last.elapsed)
    /\ last.before.plot_view.acc_zoom_in # Zero
    /\ ScrollBeganGesture

\* The view has an open zoom gesture, by scroll wheel or by rubber band
ZoomGestureOpen(pv) == pv.last_zoom_ts.some \/ pv.last_zoom_rb.some

\* C27: in every state reachable by interleaving scroll events, right-button
\* down and up, renders and the 0.2 s timeout, PlotModel.zooming is true
\* exactly when the PlotView has an open zoom gesture (last_zoom_ts is Some or
\* last_zoom_rb is Some), so no scroll zoom is forwarded to a PlotModel whose
\* zooming flag is false.
ZoomingIffGestureOpen ==
    /\ plot_model.zooming <=> ZoomGestureOpen(plot_view)
    /\ last.op = "scroll" => plot_model.zooming

-----------------------------------------------------------------------------
(* The listeners of one PlotView in any order: the left button pans, the    *)
(* right button and the scroll wheel zoom, and the view is rendered         *)

\* Most events handled in a run.
MaxPlotEvents == 4

PlotDown == point(Px(100), Px(100))
PlotDowns == {PlotDown, point(Px(260), Px(40))}
PlotMoves == {point(Px(180), Px(140))}
PlotButtons == {"Left", "Right", "None"}
PlotLines == {F(3)}

PlotInit ==
    /\ axes_model = painted(AxesModel_new(ExampleBounds), GridRect)
    /\ steps = 0
    /\ plot_model = add_axes(PlotModel_new)
    /\ plot_view = PlotView_new
    /\ last = NoOp
    /\ pf = NoOp

\* One event: the listener op with its input, w being the world it leaves; pf
\* tells whether a pan gesture has ended and whether it had moved the view
PlotEvent(op, button, position, w) ==
    /\ steps < MaxPlotEvents
    /\ Running(axes_model)
    /\ steps' = steps + 1
    /\ last' = [op |-> op, button |-> button, position |-> position, before |-> TheWorld]
    /\ Becomes(w)
    /\ pf' = IF op = "left_up" /\ axes_model.pan_state.some
             THEN [op |-> "pan_ended",
                   moved |-> axes_model.axes_bounds # axes_model.pan_state.v.initial_axes_bounds]
             ELSE IF op = "left_down" THEN NoOp
             ELSE pf

PlotLeftDown(position) ==
    PlotEvent("left_down", "Left", position, on_left_down(TheWorld, position))

PlotMove(button, position) ==
    PlotEvent("move", button, position, on_mouse_move(TheWorld, button, position))

PlotLeftUp == PlotEvent("left_up", "Left", PlotDown, on_left_up(TheWorld))

PlotRightDown(elapsed) ==
    PlotEvent("right_down", "Right", PlotDown, on_right_down(TheWorld, PlotDown, elapsed))

PlotRightUp == PlotEvent("right_up", "Right", PlotDown, on_right_up(TheWorld))

PlotScroll(l_y, elapsed) ==
    PlotEvent(IF BeginsGesture(elapsed) THEN "scroll_begin" ELSE "scroll", "None", PlotDown,
              on_scroll_wheel(TheWorld, PlotDown, l_y, elapsed))

PlotRender(elapsed) ==
    /\ last.op # "render"
    /\ PlotEvent("render", "None", PlotDown, rendered(try_clean_zoom(TheWorld, elapsed)))

PlotNext ==
    \/ \E position \in PlotDowns : PlotLeftDown(position)
    \/ \E button \in PlotButtons, position \in PlotMoves : PlotMove(button, position)
    \/ PlotLeftUp
    \/ \E elapsed \in GestureElapsed : PlotRightDown(elapsed)
    \/ PlotRightUp
    \/ \E l_y \in PlotLines, elapsed \in GestureElapsed : PlotScroll(l_y, elapsed)
    \/ \E elapsed \in GestureElapsed : PlotRender(elapsed)

SpecPlot == PlotInit /\ [][PlotNext]_vars

\* The last event left the bounds of the axes as they were
BoundsKept == axes_model.axes_bounds = last.before.axes_model.axes_bounds

\* C16: gesture state is cleared on gesture end: after PlotModel::pan_end every
\* axes of the plot has pan_state = None and panning = false, after
\* PlotModel::zoom_end zooming = false, and from then until the next begin of
\* the gesture no pointer-move (pan) and no zoom call changes any axes_bounds.
GestureEndClears ==
    /\ last.op = "left_up" => ~plot_model.panning /\ ~axes_model.pan_state.some
    /\ last.op = "right_up" => ~plot_model.zooming
    /\ ~plot_model.panning => ~axes_model.pan_state.some
    /\ (last.op = "move" /\ last.button = "Left" /\ ~last.before.plot_model.panning) =>
           BoundsKept
    /\ ((last.op = "scroll" \/ (last.op = "move" /\ last.button = "Right"))
           /\ ~last.before.plot_model.zooming) => BoundsKept

\* A pan gesture that moved the view has ended and a later pointer move with
\* the left button pressed has been handled
MovedAfterPanEnd ==
    /\ last.op = "move"
    /\ last.button = "Left"
    /\ ~last.before.plot_model.panning
    /\ pf.op = "pan_ended"
    /\ pf.moved

\* The pan state a left-button-down at the position of the last event takes
\* from the axes as they were before it
PanStateTaken == Some(PanState(last.before.axes_model.axes_bounds, last.position))

\* C22: for every sequence of pointer events, including sequences in which a
\* left-button-up is not delivered, after a left-button-down at position p the
\* pan state of each non-Fixed axes holds the axes_bounds of that moment as
\* snapshot and p as starting position, so later moves are measured from p.
LeftDownTakesSnapshot ==
    (last.op = "left_down" /\ axes_model.update_type # "Fixed") =>
        axes_model.pan_state = PanStateTaken

-----------------------------------------------------------------------------
(* The gesture methods of one PlotModel called in any order, and the shared *)
(* AxesModel begun a gesture on directly by the application that holds it   *)

\* Most calls in a run.
MaxCalls == 3

CallDowns == {point(Px(100), Px(100)), point(Px(260), Px(40))}
CallMove == point(Px(180), Px(140))
CallFactors == {Exp(Q(3, 100))}

CallInit ==
    /\ axes_model = painted(AxesModel_new(ExampleBounds), GridRect)
    /\ steps = 0
    /\ plot_model = add_axes(PlotModel_new)
    /\ plot_view = PlotView_new
    /\ last = NoOp
    /\ pf = NoOp

\* One call: the method op with its position, w being the world it leaves
Call(op, position, w) ==
    /\ steps < MaxCalls
    /\ Running(axes_model)
    /\ steps' = steps + 1
    /\ last' = [op |-> op, position |-> position, before |-> TheWorld]
    /\ Becomes(w)
    /\ UNCHANGED pf

CallPanBegin(position) == Call("pan_begin", position, PlotModel_pan_begin(TheWorld, position))

CallPan(position) == Call("pan", position, PlotModel_pan(TheWorld, position))

CallPanEnd == Call("pan_end", CallMove, PlotModel_pan_end(TheWorld))

CallZoomBegin(position) ==
    Call("zoom_begin", position, PlotModel_zoom_begin(TheWorld, position))

CallZoom(factor) == Call("zoom", CallMove, PlotModel_zoom(TheWorld, factor))

CallZoomEnd == Call("zoom_end", CallMove, PlotModel_zoom_end(TheWorld))

\* axes_model.write().pan_begin(position) by the holder of the SharedModel
CallAxesPanBegin(position) ==
    Call("axes_pan_begin", position,
         [TheWorld EXCEPT !.axes_model = pan_begin(axes_model, position)])

\* axes_model.write().zoom_begin(position) by the holder of the SharedModel
CallAxesZoomBegin(position) ==
    Call("axes_zoom_begin", position,
         [TheWorld EXCEPT !.axes_model = Axes_zoom_begin(axes_model, position)])

CallNext ==
    \/ \E position \in CallDowns : CallPanBegin(position)
    \/ CallPan(CallMove)
    \/ CallPanEnd
    \/ \E position \in CallDowns : CallZoomBegin(position)
    \/ \E factor \in CallFactors : CallZoom(factor)
    \/ CallZoomEnd
    \/ CallAxesPanBegin(CallMove)
    \/ CallAxesZoomBegin(CallMove)

SpecCall == CallInit /\ [][CallNext]_vars

\* The last call left the PlotModel and its axes as they were
CallIgnored ==
    /\ plot_model = last.before.plot_model
    /\ axes_model = last.before.axes_model

\* C24: PlotModel enforces the begin/update/end lifecycle: pan and pan_end are
\* no-ops unless panning is true, zoom and zoom_end are no-ops unless zooming
\* is true, and a pan_begin (zoom_begin) received while panning (zooming) is
\* already true is ignored, so the per-axes snapshot of the running gesture is
\* not replaced.
LifecycleEnforced ==
    /\ (last.op \in {"pan", "pan_end"} /\ ~last.before.plot_model.panning) => CallIgnored
    /\ (last.op \in {"zoom", "zoom_end"} /\ ~last.before.plot_model.zooming) => CallIgnored
    /\ (last.op = "pan_begin" /\ last.before.plot_model.panning) => CallIgnored
    /\ (last.op = "zoom_begin" /\ last.before.plot_model.zooming) => CallIgnored

\* A pan_begin at another position arrived while the PlotModel was panning and
\* the view had moved, and the pan state of the running gesture is still there
SecondPanBeginIgnored ==
    /\ last.op = "pan_begin"
    /\ last.before.plot_model.panning
    /\ axes_model.pan_state.some
    /\ axes_model.pan_state.v.initial_pan_position # last.position
    /\ axes_model.pan_state.v.initial_axes_bounds # axes_model.axes_bounds

-----------------------------------------------------------------------------
(* The reader/writer locks the handlers of one PlotView take, in the order  *)
(* of the code: every entry of PlotModel::axes wraps the same AxesModel,    *)
(* registered as itself (add_axes), in an AxesViewer or in a PlottersModel  *)

\* RwLock::read / RwLock::write on the lock l, and the drop of the guard
acquire(l, mode) == [a |-> "acquire", l |-> l, mode |-> mode]
release(l, mode) == [a |-> "release", l |-> l, mode |-> mode]

\* A guard that lives while body runs: a let binding to the end of its block,
\* or a temporary to the end of its statement
guarded(l, mode, body) == <<acquire(l, mode)>> \o body \o <<release(l, mode)>>

\* The branches a handler takes: try_clean_zoom finds the gesture timed out,
\* should_update_grid returns true, an element left new_axes_bounds
Branches == [timed_out : BOOLEAN, should_update : BOOLEAN, new_axes_bounds : BOOLEAN]

\* element.write().render_axes(cx1) for the elements of the model
render_elements == guarded("Element", "write", <<>>)

\* AxesViewer::paint with the guard of should_update_grid kept across the
\* update of the grid
AxesViewer_paint_guard_kept(br) ==
    guarded("AxesModel", "read", <<>>)
    \o guarded("AxesModel", "read", <<>>)
    \o guarded("AxesModel", "read",
               IF br.should_update THEN guarded("AxesModel", "write", <<>>) ELSE <<>>)
    \o guarded("AxesModel", "read", <<>>)
    \o guarded("AxesModel", "read", <<>>)
    \o guarded("AxesModel", "read", render_elements)
    \o (IF br.new_axes_bounds THEN guarded("AxesModel", "write", <<>>) ELSE <<>>)

\* AxesViewer::paint: the frame lines, AxesContext::new, should_update_grid,
\* update_grid, the ticks, the grid, the elements, new_axes_bounds
AxesViewer_paint(br) ==
    guarded("AxesModel", "read", <<>>)
    \o guarded("AxesModel", "read", <<>>)
    \o guarded("AxesModel", "read", <<>>)
    \o (IF br.should_update THEN guarded("AxesModel", "write", <<>>) ELSE <<>>)
    \o guarded("AxesModel", "read", <<>>)
    \o guarded("AxesModel", "read", <<>>)
    \o guarded("AxesModel", "read", render_elements)
    \o (IF br.new_axes_bounds THEN guarded("AxesModel", "write", <<>>) ELSE <<>>)

\* AxesViewer::render_pixels
AxesViewer_render_pixels(br) ==
    guarded("AxesModel", "write", <<>>) \o AxesViewer_paint(br)

\* PlottersView::plot: base_model is held while the chart is drawn
PlottersView_plot == guarded("AxesModel", "read", <<>>)

\* PlottersView::render_pixels
PlottersView_render_pixels == guarded("AxesModel", "write", <<>>) \o PlottersView_plot

\* The lock of an entry of PlotModel::axes
entry_lock(entry) ==
    IF entry = "AxesModel" THEN "AxesModel"
    ELSE IF entry = "AxesViewer" THEN "AxesViewer"
    ELSE "PlottersModel"

\* What a method of Axes does on an entry whose guard the caller holds: the
\* AxesModel runs it on itself, the AxesViewer and the PlottersModel lock the
\* model they wrap
entry_call(entry, method, br) ==
    IF entry = "AxesModel"
    THEN (IF method = "render" THEN render_elements ELSE <<>>)
    ELSE IF entry = "AxesViewer"
    THEN (IF method = "render" THEN AxesViewer_render_pixels(br)
          ELSE guarded("AxesModel", "write", <<>>))
    ELSE (IF method = "render" THEN PlottersView_render_pixels
          ELSE guarded("AxesModel", "write", <<>>))

RECURSIVE each_entry(_, _, _, _)
\* for axes in self.axes.iter_mut() { axes.write().method(..) }, from entry i
each_entry(axes, i, method, br) ==
    IF i > Len(axes) THEN <<>>
    ELSE guarded(entry_lock(axes[i]), "write", entry_call(axes[i], method, br))
         \o each_entry(axes, i + 1, method, br)

\* self.model.write().method(..) of a PlotView
PlotModel_call(axes, method, br) ==
    guarded("PlotModel", "write", each_entry(axes, 1, method, br))

\* PlotView::try_clean_zoom
try_clean_zoom_locks(axes, br) ==
    IF br.timed_out THEN PlotModel_call(axes, "zoom_end", br) ELSE <<>>

RECURSIVE new_render_locks(_, _, _)
\* The loop of PlotView::render over the axes, from entry i
new_render_locks(axes, i, br) ==
    IF i > Len(axes) THEN <<>>
    ELSE guarded("PlotModel", "read", <<>>)
         \o guarded(entry_lock(axes[i]), "write", entry_call(axes[i], "new_render", br))
         \o new_render_locks(axes, i + 1, br)

\* The locks of each listener, of PlotView::render and of the canvas paint
handler_locks(handler, axes, br) ==
    CASE handler = "left_down"  -> PlotModel_call(axes, "pan_begin", br)
      [] handler = "right_down" -> try_clean_zoom_locks(axes, br)
                                   \o PlotModel_call(axes, "zoom_begin", br)
      [] handler = "move_left"  -> PlotModel_call(axes, "pan", br)
      [] handler = "move_right" -> guarded("PlotModel", "read", <<>>)
                                   \o PlotModel_call(axes, "zoom", br)
      [] handler = "left_up"    -> PlotModel_call(axes, "pan_end", br)
      [] handler = "right_up"   -> PlotModel_call(axes, "zoom_end", br)
      [] handler = "scroll"     ->
             guarded("PlotModel", "read", <<>>)
             \o try_clean_zoom_locks(axes, br)
             \o guarded("PlotModel", "write",
                        each_entry(axes, 1, "zoom_begin", br)
                        \o each_entry(axes, 1, "zoom", br))
      [] handler = "render"     ->
             try_clean_zoom_locks(axes, br)
             \o guarded("PlotModel", "read", <<>>)
             \o new_render_locks(axes, 1, br)
      [] OTHER                  ->
             guarded("PlotModel", "write", <<>>)
             \o PlotModel_call(axes, "render", br)

Handlers ==
    {"left_down", "right_down", "move_left", "move_right", "left_up", "right_up",
     "scroll", "render", "paint"}
Entries == {"AxesModel", "AxesViewer", "PlottersModel"}
\* One or two registrations of the same AxesModel
Registrations ==
    {<<e>> : e \in Entries} \cup {<<e1, e2>> : e1 \in Entries, e2 \in Entries}

\* The thread holds no guard and runs no handler
Idle == [op |-> "locks", handler |-> "none", program |-> <<>>, held |-> <<>>,
         blocked |-> FALSE]

LockInit ==
    /\ axes_model = AxesModel_new(ExampleBounds)
    /\ steps = 0
    /\ \E axes \in Registrations : plot_model = [PlotModel_new EXCEPT !.axes = axes]
    /\ plot_view = PlotView_new
    /\ last = NoOp
    /\ pf = Idle

\* The guard g cannot be granted while the thread itself holds held: a write
\* needs the lock free, a read needs it free of a writer
blocks(held, g) ==
    \E i \in 1..Len(held) :
        held[i].l = g.l /\ (g.mode = "write" \/ held[i].mode = "write")

\* held without the guard dropped last on the lock l in the mode
dropped(held, l, mode) ==
    LET at == CHOOSE i \in 1..Len(held) :
                  /\ held[i] = [l |-> l, mode |-> mode]
                  /\ \A j \in (i + 1)..Len(held) : held[j] # [l |-> l, mode |-> mode]
    IN  SubSeq(held, 1, at - 1) \o SubSeq(held, at + 1, Len(held))

\* The toolkit calls a handler once the one before has returned
LockEnter(handler, br) ==
    /\ pf.program = <<>>
    /\ ~pf.blocked
    /\ pf' = [pf EXCEPT !.handler = handler,
                        !.program = handler_locks(handler, plot_model.axes, br)]
    /\ last' = [op |-> "enter", handler |-> handler]
    /\ UNCHANGED <<axes_model, steps, plot_model, plot_view>>

\* read() or write(): the guard is granted, or the thread waits for itself
LockAcquire ==
    /\ pf.program # <<>>
    /\ ~pf.blocked
    /\ Head(pf.program).a = "acquire"
    /\ pf' = IF blocks(pf.held, Head(pf.program))
             THEN [pf EXCEPT !.blocked = TRUE]
             ELSE [pf EXCEPT !.program = Tail(pf.program),
                             !.held = Append(pf.held, [l |-> Head(pf.program).l,
                                                       mode |-> Head(pf.program).mode])]
    /\ last' = [op |-> "acquire", handler |-> pf.handler]
    /\ UNCHANGED <<axes_model, steps, plot_model, plot_view>>

\* A guard goes out of scope
LockRelease ==
    /\ pf.program # <<>>
    /\ ~pf.blocked
    /\ Head(pf.program).a = "release"
    /\ pf' = [pf EXCEPT !.program = Tail(pf.program),
                        !.held = dropped(pf.held, Head(pf.program).l,
                                         Head(pf.program).mode)]
    /\ last' = [op |-> "release", handler |-> pf.handler]
    /\ UNCHANGED <<axes_model, steps, plot_model, plot_view>>

LockNext ==
    \/ \E handler \in Handlers, br \in Branches : LockEnter(handler, br)
    \/ LockAcquire
    \/ LockRelease

SpecLock == LockInit /\ [][LockNext]_vars

\* C26: no event handler, render call or paint pass of the library requests a
\* write lock on a model while it still holds a read or write guard on that
\* same model, nor a read lock while it holds the write guard: every handler
\* runs to completion without self-deadlock on the non-reentrant reader/writer
\* locks, also when one AxesModel is shared by a native axes entry and a
\* PlottersModel entry of the same plot.
NoSelfDeadlock ==
    /\ ~pf.blocked
    /\ pf.program = <<>> => pf.held = <<>>

\* The paint of a plot that holds one AxesModel as a native entry and in a
\* PlottersModel has locked and released the model for the native entry and
\* holds it again, read, while the chart of the PlottersModel is drawn
SharedModelPainted ==
    /\ plot_model.axes = <<"AxesModel", "PlottersModel">>
    /\ pf.handler = "paint"
    /\ pf.held = <<[l |-> "PlotModel", mode |-> "write"],
                   [l |-> "PlottersModel", mode |-> "write"],
                   [l |-> "AxesModel", mode |-> "read"]>>

-----------------------------------------------------------------------------
(* AxesModel::update over the elements plotted so far: lines and elements   *)
(* drawn by a function that report both ranges, one or none                 *)

\* Most elements plotted before an update.
MaxPlotted == 3

UpdateGrids == {from_numbers(3, 4), with_fixed(from_density(F(25), F(30)))}
UpdateElements ==
    {[kind |-> "line", points |-> <<point(Q(1, 10), Q(1, 2)), point(Q(7, 10), Q(-1, 3))>>],
     GeometryAxesFn(Some(AxisRange_new(F(-1), F(150))), Some(AxisRange_new(Q(3, 10), F(1)))),
     GeometryAxesFn(Some(AxisRange_new(F(-50), F(50))), None),
     GeometryAxesFn(None, None)}

UpdateInit ==
    /\ \E g \in UpdateGrids : axes_model = painted(AxesModel_new_with(ExampleBounds, g), GridRect)
    /\ steps = 0
    /\ plot_model = PlotModel_new
    /\ plot_view = PlotView_new
    /\ last = NoOp
    /\ pf = NoOp

UpdatePlot(element) ==
    /\ Running(axes_model)
    /\ Len(axes_model.elements) < MaxPlotted
    /\ axes_model' = plot(axes_model, element)
    /\ last' = [op |-> "plot", before |-> axes_model]
    /\ UNCHANGED <<steps, pf, plot_model, plot_view>>

UpdateUpdate ==
    /\ Running(axes_model)
    /\ last.op # "update"
    /\ axes_model' = update(axes_model)
    /\ last' = [op |-> "update", before |-> axes_model]
    /\ UNCHANGED <<steps, pf, plot_model, plot_view>>

UpdateNext ==
    \/ \E element \in UpdateElements : UpdatePlot(element)
    \/ UpdateUpdate

SpecUpdate == UpdateInit /\ [][UpdateNext]_vars

\* The places of the elements that report both an x and a y range
Reporting(elements) ==
    {i \in 1..Len(elements) : get_x_range(elements[i]).some /\ get_y_range(elements[i]).some}

\* The least and the greatest of a non-empty set of numbers
Least(vs) == CHOOSE v \in vs : \A u \in vs : Le(v, u)
Greatest(vs) == CHOOSE v \in vs : \A u \in vs : Ge(v, u)

\* Range r runs from the least minimum to the greatest maximum of the ranges rs
SmallestCover(r, rs) ==
    /\ range_min(r) = Least({range_min(e) : e \in rs})
    /\ range_max(r) = Greatest({range_max(e) : e \in rs})

\* Bounds b are the smallest rectangle covering the ranges of the reporting
\* elements
SmallestRectangle(b, elements) ==
    /\ SmallestCover(b.x, {get_x_range(elements[i]).v : i \in Reporting(elements)})
    /\ SmallestCover(b.y, {get_y_range(elements[i]).v : i \in Reporting(elements)})

\* C30: AxesModel::update sets axes_bounds to the smallest rectangle covering
\* the x and y ranges of every element that reports both ranges (elements
\* reporting only one or none are skipped) and then recomputes the grid from
\* it; when no element reports both ranges, axes_bounds and the cached grid
\* lines are left unchanged.
UpdateCoversElements ==
    last.op = "update" =>
        IF Reporting(last.before.elements) = {}
        THEN /\ axes_model.axes_bounds = last.before.axes_bounds
             /\ SameLines(axes_model.grid, last.before.grid)
        ELSE /\ SmallestRectangle(axes_model.axes_bounds, last.before.elements)
             /\ axes_model.grid = update_grid(last.before.grid, axes_model.axes_bounds)

\* The magnitude of range r: of its ends and of the bases it can be told from
Magnitude(r) == Add(Add(FAbs(range_min(r)), FAbs(range_max(r))), FAbs(size_in_f64(r)))

\* Range r runs from the least minimum to the greatest maximum of the ranges
\* rs, within the rounding of k unions: each union subtracts the smaller base
\* from the ends and min() and max() add it back
NearestCover(r, rs, k) ==
    /\ Within(range_min(r), Least({range_min(e) : e \in rs}), Ulps(2 * k, Magnitude(r)))
    /\ Within(range_max(r), Greatest({range_max(e) : e \in rs}), Ulps(2 * k, Magnitude(r)))

NearestRectangle(b, elements) ==
    LET n == Cardinality(Reporting(elements))
    IN  /\ NearestCover(b.x, {get_x_range(elements[i]).v : i \in Reporting(elements)}, n - 1)
        /\ NearestCover(b.y, {get_y_range(elements[i]).v : i \in Reporting(elements)}, n - 1)

\* C30 amended: AxesModel::update sets axes_bounds to the smallest rectangle
\* covering the x and y ranges of every element that reports both ranges
\* (elements reporting only one or none are skipped), up to the rounding of
\* each union, which stores the ends as offsets from the smaller base, and
\* then recomputes the grid from it; when no element reports both ranges,
\* axes_bounds and the cached grid lines are left unchanged.
UpdateNearlyCoversElements ==
    last.op = "update" =>
        IF Reporting(last.before.elements) = {}
        THEN /\ axes_model.axes_bounds = last.before.axes_bounds
             /\ SameLines(axes_model.grid, last.before.grid)
        ELSE /\ NearestRectangle(axes_model.axes_bounds, last.before.elements)
             /\ axes_model.grid = update_grid(last.before.grid, axes_model.axes_bounds)

\* An update took the union of two reporting elements and skipped one that
\* reports a single range, on a grid whose lines were cached
UpdateOfThree ==
    /\ last.op = "update"
    /\ Running(axes_model)
    /\ Cardinality(Reporting(last.before.elements)) = 2
    /\ Len(last.before.elements) = 3
    /\ \E i \in 1..3 : get_x_range(last.before.elements[i]).some
                        /\ ~get_y_range(last.before.elements[i]).some
    /\ last.before.grid.grid_x_lines # <<>>
    /\ ~SameLines(axes_model.grid, last.before.grid)
    /\ axes_model.axes_bounds # last.before.axes_bounds

-----------------------------------------------------------------------------
(* One AxesModel registered twice in a PlotModel, by add_axes_with and by    *)
(* add_axes_plotters: every call of the PlotModel reaches the model twice    *)

\* Most calls in a run.
MaxTwice == 4

TwiceDown == point(Px(100), Px(100))
TwiceMoves == {point(Px(180), Px(140)), point(Px(137), Px(211))}
TwiceFactors == {Exp(Q(3, 100)), Exp(Q(-1, 10))}
TwiceLine ==
    [kind |-> "line", points |-> <<point(F(0), F(2)), point(F(10), F(-3)), point(F(4), F(7))>>]

TwiceInit ==
    /\ axes_model = painted(plot(AxesModel_new(ExampleBounds), TwiceLine), GridRect)
    /\ steps = 0
    /\ plot_model = add_axes_plotters(add_axes(PlotModel_new))
    /\ plot_view = PlotView_new
    /\ last = NoOp
    /\ pf = NoOp

\* One call: the method op with its input, w being the world it leaves
TwiceCall(op, position, factor, w) ==
    /\ steps < MaxTwice
    /\ Running(axes_model)
    /\ steps' = steps + 1
    /\ last' = [op |-> op, position |-> position, factor |-> factor, before |-> TheWorld]
    /\ Becomes(w)
    /\ UNCHANGED pf

TwicePanBegin == TwiceCall("pan_begin", TwiceDown, Zero, PlotModel_pan_begin(TheWorld, TwiceDown))

TwicePan(position) == TwiceCall("pan", position, Zero, PlotModel_pan(TheWorld, position))

TwicePanEnd == TwiceCall("pan_end", TwiceDown, Zero, PlotModel_pan_end(TheWorld))

TwiceZoomBegin ==
    TwiceCall("zoom_begin", TwiceDown, Zero, PlotModel_zoom_begin(TheWorld, TwiceDown))

TwiceZoom(factor) == TwiceCall("zoom", TwiceDown, factor, PlotModel_zoom(TheWorld, factor))

TwiceZoomEnd == TwiceCall("zoom_end", TwiceDown, Zero, PlotModel_zoom_end(TheWorld))

TwiceUpdate ==
    /\ last.op # "update"
    /\ TwiceCall("update", TwiceDown, Zero, PlotModel_update(TheWorld))

TwiceNext ==
    \/ TwicePanBegin
    \/ \E position \in TwiceMoves : TwicePan(position)
    \/ TwicePanEnd
    \/ TwiceZoomBegin
    \/ \E factor \in TwiceFactors : TwiceZoom(factor)
    \/ TwiceZoomEnd
    \/ TwiceUpdate

SpecTwice == TwiceInit /\ [][TwiceNext]_vars

\* The world w with the AxesModel registered once
Single(w) == [w EXCEPT !.plot_model.axes = <<"axes">>]

\* What the last pan or zoom call leaves when the model is registered once
DeliveredOnce ==
    IF last.op = "pan" THEN PlotModel_pan(Single(last.before), last.position)
    ELSE PlotModel_zoom(Single(last.before), last.factor)

\* C29: if the same AxesModel is registered twice in one PlotModel (once
\* directly and once wrapped by add_axes_plotters), a single PlotModel pan or
\* zoom event leaves that model's axes_bounds equal to what a single
\* registration would give: delivering the same event twice to one model is
\* idempotent.
TwiceAsOnce ==
    last.op \in {"pan", "zoom"} =>
        axes_model.axes_bounds = DeliveredOnce.axes_model.axes_bounds

-----------------------------------------------------------------------------
(* The life of one AxesModel: construction from (min, max) with min <= max, *)
(* then renders, elements and updates, pan, zoom and resize in any order    *)

\* Most elements plotted on one AxesModel.
MaxElements == 2

InitBounds ==
    {ExampleBounds,
     AxesBounds_new(AxisRange_new(Q(1, 10), Q(7, 10)), AxisRange_new(Q(-1, 3), Q(7, 10)))}
RenderRects == {Bounds(Px(0), Px(0), Px(800), Px(600)), Bounds(Px(30), Px(0), Px(740), Px(570))}
\* Line::new().add_point(..) and plot_fn(..)
Elements ==
    {[kind |-> "line", points |-> <<point(F(0), F(2)), point(F(10), F(-3)), point(F(4), F(7))>>],
     [kind |-> "line", points |-> <<point(F(150), Q(1, 10))>>],
     [kind |-> "line", points |-> <<>>],
     GeometryAxesFn(None, None)}
DownPositions == {point(Px(100), Px(100))}
MovePositions == {point(Px(180), Px(100)), point(Px(137), Px(211))}
ScrollPositions == {point(Px(400), Px(300))}
ScrollDeltas == {Q(1, 10), Q(-1, 2), F(-2)}
ResizeFactors == {Q(1, 2), F(2)}

Init ==
    /\ \E b \in InitBounds : axes_model = AxesModel_new(b)
    /\ steps = 0
    /\ plot_model = PlotModel_new
    /\ plot_view = PlotView_new
    /\ last = NoOp
    /\ pf = NoOp

\* What every operation on the model records
Step(op) ==
    /\ Running(axes_model)
    /\ steps < MaxSteps
    /\ steps' = steps + 1
    /\ last' = [op |-> op, before |-> axes_model]
    /\ UNCHANGED <<pf, plot_model, plot_view>>

\* AxesModel::update_scale(shrunk_bounds), called by every render
UpdateScale(shrunk_bounds) ==
    /\ Step("update_scale")
    /\ axes_model' = update_scale(axes_model, shrunk_bounds)

NewRender ==
    /\ Step("new_render")
    /\ axes_model' = new_render(axes_model)

Plot(element) ==
    /\ Step("plot")
    /\ Len(axes_model.elements) < MaxElements
    /\ axes_model' = plot(axes_model, element)

Update ==
    /\ Step("update")
    /\ axes_model' = update(axes_model)

\* The pointer handlers exist once a frame has been rendered
PanBegin(position) ==
    /\ Step("pan_begin")
    /\ ScaleCached(axes_model)
    /\ axes_model' = pan_begin(axes_model, position)

Pan(position) ==
    /\ Step("pan")
    /\ ScaleCached(axes_model)
    /\ axes_model' = pan(axes_model, position)

PanEnd ==
    /\ Step("pan_end")
    /\ ScaleCached(axes_model)
    /\ axes_model' = pan_end(axes_model)

Zoom(pt, delta) ==
    /\ Step("zoom")
    /\ ScaleCached(axes_model)
    /\ axes_model' = zoom(axes_model, pt, delta)

\* AxesBounds::resize on the model's bounds
Resize(factor) ==
    /\ Step("resize")
    /\ axes_model' = [axes_model EXCEPT !.axes_bounds = resize(axes_model.axes_bounds, factor)]

Next ==
    \/ \E rect \in RenderRects : UpdateScale(rect)
    \/ NewRender
    \/ \E element \in Elements : Plot(element)
    \/ Update
    \/ \E position \in DownPositions : PanBegin(position)
    \/ \E position \in MovePositions : Pan(position)
    \/ PanEnd
    \/ \E pt \in ScrollPositions, delta \in ScrollDeltas : Zoom(pt, delta)
    \/ \E factor \in ResizeFactors : Resize(factor)

Spec == Init /\ [][Next]_vars

\* C6: in every reachable state each axis range satisfies min_to_base <=
\* max_to_base: the visible interval is never inverted.
NeverInverted ==
    /\ Le(axes_model.axes_bounds.x.min_to_base, axes_model.axes_bounds.x.max_to_base)
    /\ Le(axes_model.axes_bounds.y.min_to_base, axes_model.axes_bounds.y.max_to_base)

\* C28: AxesModel::update terminates for every list of elements and every grid
\* type, including when the union of the element ranges has zero size on an
\* axis (a Line holding a single point) and the grid is Numbers(n, m): the grid
\* derivation then yields a finite list of lines.
UpdateTerminates == last.op = "update" => Running(axes_model)

\* A range a view can show: finite ends, min below max
ValidRange(r) ==
    /\ IsFinite(r.base) /\ IsFinite(r.min_to_base) /\ IsFinite(r.max_to_base)
    /\ Lt(r.min_to_base, r.max_to_base)

ValidBounds(b) == ValidRange(b.x) /\ ValidRange(b.y)

\* C18: a pan or zoom step whose result would be an invalid range (max < min,
\* or a zero or non-finite size) is discarded, axes_bounds and the cached pixel
\* scale keeping their last valid values: a pan or zoom step on valid bounds
\* leaves valid bounds, the new ones or the old, and the pixel scale as it was.
InvalidStepDiscarded ==
    (last.op \in {"pan", "zoom"} /\ ValidBounds(last.before.axes_bounds)) =>
        /\ ValidBounds(axes_model.axes_bounds)
        /\ axes_model.pixel_bounds = last.before.pixel_bounds

\* The scale cached in m is the one update_scale would compute from the bounds
\* m has now
ScaleCurrent(m) ==
    /\ m.pixel_bounds.x.pixels_per_element =
           pixels_per_element(m.axes_bounds.x, m.pixel_bounds.x)
    /\ m.pixel_bounds.y.pixels_per_element =
           Neg(pixels_per_element(m.axes_bounds.y, m.pixel_bounds.y))

\* Axes::pan and Axes::zoom read pixel_bounds: zoom always, pan once a pan state
\* is set
ReadsScale(op, m) ==
    op = "zoom" \/ (op = "pan" /\ m.pan_state.some)

\* C21: a change of the widget's pixel rectangle is the only event that
\* invalidates the cached scale: whenever pan or zoom reads pixel_bounds after
\* the first paint, pixels_per_element is pixel width / current x range size on
\* x and -(pixel height / current y range size) on y.
ScaleCurrentWhenRead ==
    (last.op \in {"pan", "zoom"} /\ ReadsScale(last.op, last.before)
                                  /\ ScaleCached(last.before)) =>
        ScaleCurrent(last.before)

-----------------------------------------------------------------------------
(* zoom_with_point on its own: one call on a pivot, a min and a max point   *)

ZoomPivots == SeriesPivots \cup {point(F(50), F(50))}
ZoomMins == SeriesMins \cup {point(F(0), F(0))}
ZoomMaxs == SeriesMaxs \cup {point(F(100), F(100))}

ZoomPointInit ==
    /\ axes_model = AxesModel_new(ExampleBounds)
    /\ steps = 0
    /\ plot_model = PlotModel_new
    /\ plot_view = PlotView_new
    /\ last = NoOp
    /\ \E zp \in ZoomPivots, mn \in ZoomMins, mx \in ZoomMaxs :
          pf = [op |-> "zoom_with_point", zoom_point |-> zp, min_point |-> mn,
                max_point |-> mx, zoom_factor |-> None, min |-> mn, max |-> mx]

\* let (min, max) = zoom_with_point(zoom_point, min_point, max_point, zoom_factor)
ZoomPointApply(zoom_factor) ==
    /\ ~pf.zoom_factor.some
    /\ LET r == zoom_with_point(pf.zoom_point, pf.min_point, pf.max_point, zoom_factor)
       IN  pf' = [pf EXCEPT !.min = r[1], !.max = r[2], !.zoom_factor = Some(zoom_factor)]
    /\ UNCHANGED <<axes_model, steps, last, plot_model, plot_view>>

\* A second call on the same points
ZoomPointAgain ==
    /\ pf.zoom_factor.some
    /\ pf' = [pf EXCEPT !.min = pf.min_point, !.max = pf.max_point, !.zoom_factor = None]
    /\ UNCHANGED <<axes_model, steps, last, plot_model, plot_view>>

ZoomPointNext ==
    \/ \E f \in ZoomFactors : ZoomPointApply(f)
    \/ ZoomPointAgain

SpecZoomPoint == ZoomPointInit /\ [][ZoomPointNext]_vars

\* pivot + (v - pivot) * factor, as f64 operations
Scaled(v, pivot, factor) == Add(pivot, Mul(Sub(v, pivot), factor))

\* One axis of the result as C20 states it: both ends mapped, the size
\* multiplied by the factor, the pivot at its relative position, and nothing
\* changed by factor 1
AxisScaledExactly(min, max, min0, max0, pivot, factor) ==
    /\ min = Scaled(min0, pivot, factor)
    /\ max = Scaled(max0, pivot, factor)
    /\ Sub(max, min) = Mul(Sub(max0, min0), factor)
    /\ Sub(pivot, min) = Mul(Sub(pivot, min0), factor)
    /\ factor = F(1) => min = min0 /\ max = max0

\* The rounding allowed on one axis: 8 * 2^-F64Bits * (|pivot| + |factor| *
\* (|min0 - pivot| + |max0 - pivot|))
ZoomPointTol(min0, max0, pivot, factor) ==
    Ulps(8, Add(FAbs(pivot),
                Mul(FAbs(factor), Add(FAbs(Sub(min0, pivot)), FAbs(Sub(max0, pivot))))))

\* One axis of the result up to rounding
AxisScaledRounded(min, max, min0, max0, pivot, factor, tol) ==
    /\ min = Scaled(min0, pivot, factor)
    /\ max = Scaled(max0, pivot, factor)
    /\ Within(Sub(max, min), Mul(Sub(max0, min0), factor), tol)
    /\ Within(Sub(pivot, min), Mul(Sub(pivot, min0), factor), tol)
    /\ factor = F(1) => Within(min, min0, tol) /\ Within(max, max0, tol)

\* The call of the scenario: pivot (50,50), [0,100] x [0,100], factor 2
ZoomPointCentre ==
    /\ pf.zoom_factor = Some(F(2))
    /\ pf.zoom_point = point(F(50), F(50))
    /\ pf.min_point = point(F(0), F(0))
    /\ pf.max_point = point(F(100), F(100))

\* The half-width is exactly doubled and the centre stays at (50,50)
CentreDoubled ==
    ZoomPointCentre => pf.min = point(F(-50), F(-50)) /\ pf.max = point(F(150), F(150))

\* C20 as stated: zoom_with_point maps, per axis, min to pivot + (min - pivot) *
\* factor and max to pivot + (max - pivot) * factor: the range size is
\* multiplied by factor and the pivot keeps its relative position; with the
\* pivot at the centre (50,50) of [0,100] x [0,100] and factor 2 the half-width
\* is exactly doubled and the centre stays; factor 1 leaves the range unchanged.
ZoomPointScalesExactly ==
    pf.zoom_factor.some =>
        /\ AxisScaledExactly(pf.min.x, pf.max.x, pf.min_point.x, pf.max_point.x,
                             pf.zoom_point.x, pf.zoom_factor.v)
        /\ AxisScaledExactly(pf.min.y, pf.max.y, pf.min_point.y, pf.max_point.y,
                             pf.zoom_point.y, pf.zoom_factor.v)
        /\ CentreDoubled

\* C20 amended: zoom_with_point maps, per axis, min to pivot + (min - pivot) *
\* factor and max to pivot + (max - pivot) * factor, each operation rounded to
\* f64: up to that rounding the range size is multiplied by factor, the pivot
\* keeps its relative position and factor 1 leaves the range unchanged; with
\* the pivot at the centre (50,50) of [0,100] x [0,100] and factor 2 the
\* half-width is exactly doubled and the centre stays at (50,50).
ZoomPointScales ==
    pf.zoom_factor.some =>
        /\ AxisScaledRounded(pf.min.x, pf.max.x, pf.min_point.x, pf.max_point.x,
                             pf.zoom_point.x, pf.zoom_factor.v,
                             ZoomPointTol(pf.min_point.x, pf.max_point.x, pf.zoom_point.x,
                                          pf.zoom_factor.v))
        /\ AxisScaledRounded(pf.min.y, pf.max.y, pf.min_point.y, pf.max_point.y,
                             pf.zoom_point.y, pf.zoom_factor.v,
                             ZoomPointTol(pf.min_point.y, pf.max_point.y, pf.zoom_point.y,
                                          pf.zoom_factor.v))
        /\ CentreDoubled

\* zoom_with_point with factor 1 returned a min point that is not the one given
ZoomPointMoved ==
    /\ pf.zoom_factor = Some(F(1))
    /\ pf.min # pf.min_point

-----------------------------------------------------------------------------
(* utils/math.rs.  A String is the sequence of its characters.             *)

Digit(d) == <<"0", "1", "2", "3", "4", "5", "6", "7", "8", "9">>[d + 1]

RECURSIVE IntText(_)
\* The decimal digits of the natural number n
IntText(n) == IF n < 10 THEN <<Digit(n)>> ELSE Append(IntText(n \div 10), Digit(n % 10))

RECURSIVE FracText(_, _)
\* The last n decimal digits of a, leading zeros included
FracText(a, n) == IF n = 0 THEN <<>> ELSE Append(FracText(a \div 10, n - 1), Digit(a % 10))

\* The f64 nearest to the decimal a / 10^n
Decimal(a, n) == DivP(F64Bits, Fin(a, 0), Fin(10 ^ n, 0))

\* The integer nearest to m / d * 10^n
Nearest(m, d, n) == (m * 10 ^ n + d \div 2) \div d

RECURSIVE ShortestFrom(_, _, _)
\* The fewest fractional digits, n at least, with which the decimal nearest to
\* m / d reads back as m / d
ShortestFrom(m, d, n) ==
    IF Decimal(Nearest(m, d, n), n) = Fin(m, 0 - BitLen(d) + 1) THEN n
    ELSE ShortestFrom(m, d, n + 1)

\* a / 10^n in positional notation
Positional(a, n) ==
    IF n = 0 THEN IntText(a)
    ELSE IntText(a \div 10 ^ n) \o <<".">> \o FracText(a % 10 ^ n, n)

\* The digits of the finite value m * 2^e, m >= 0: the shortest decimal that
\* reads back as the same f64, in positional notation without exponent
ShortestText(m, e) ==
    IF e >= 0 THEN IntText(m * 2 ^ e)
    ELSE Positional(Nearest(m, 2 ^ (-e), ShortestFrom(m, 2 ^ (-e), 1)),
                    ShortestFrom(m, 2 ^ (-e), 1))

\* f64::to_string (impl Display for f64)
to_string(num) ==
    IF IsNaN(num) THEN <<"N", "a", "N">>
    ELSE IF IsInf(num) THEN (IF num.m < 0 THEN <<"-", "i", "n", "f">> ELSE <<"i", "n", "f">>)
    ELSE IF num.m < 0 THEN <<"-">> \o ShortestText(-num.m, num.e)
    ELSE ShortestText(num.m, num.e)

\* String::contains and String::ends_with for a pattern of one character
str_contains(formatted, c) == \E i \in 1..Len(formatted) : formatted[i] = c
ends_with(formatted, c) == formatted # <<>> /\ formatted[Len(formatted)] = c

\* String::pop
pop(formatted) == SubSeq(formatted, 1, Len(formatted) - 1)

RECURSIVE pop_zeros(_)
\* while formatted.ends_with("0") { formatted.pop(); }
pop_zeros(formatted) ==
    IF ends_with(formatted, "0") THEN pop_zeros(pop(formatted)) ELSE formatted

\* if formatted.ends_with(".") { formatted.pop(); }
pop_point(formatted) == IF ends_with(formatted, ".") THEN pop(formatted) ELSE formatted

\* The trimming without the test for a decimal point
trimmed_unguarded(formatted) == pop_point(pop_zeros(formatted))

\* The two if statements of display_double_smartly
trimmed(formatted) ==
    pop_point(IF str_contains(formatted, ".") THEN pop_zeros(formatted) ELSE formatted)

\* display_double_smartly
display_double_smartly(num) == trimmed(to_string(num))

-----------------------------------------------------------------------------
(* display_double_smartly on its own: one call on one number                *)

DisplayNums ==
    {Q(j, d) : j \in -3..30, d \in {1, 2, 10, 100}}
        \cup {F(100), F(1000), F(2500), Q(3, 8), NaN, Inf(1), Inf(-1)}

DisplayInit ==
    /\ axes_model = AxesModel_new(ExampleBounds)
    /\ steps = 0
    /\ plot_model = PlotModel_new
    /\ plot_view = PlotView_new
    /\ last = NoOp
    /\ \E num \in DisplayNums : pf = [op |-> "display", num |-> num, text |-> None]

\* let text = display_double_smartly(num)
DisplayApply ==
    /\ ~pf.text.some
    /\ pf' = [pf EXCEPT !.text = Some(display_double_smartly(pf.num))]
    /\ UNCHANGED <<axes_model, steps, last, plot_model, plot_view>>

\* The next label
DisplayAgain ==
    /\ pf.text.some
    /\ \E num \in DisplayNums : pf' = [op |-> "display", num |-> num, text |-> None]
    /\ UNCHANGED <<axes_model, steps, last, plot_model, plot_view>>

DisplayNext == DisplayApply \/ DisplayAgain

SpecDisplay == DisplayInit /\ [][DisplayNext]_vars

\* The part of the text formatted that the text shorter leaves out, when
\* shorter is a prefix of formatted
Removed(formatted, shorter) == SubSeq(formatted, Len(shorter) + 1, Len(formatted))

\* The text cut is made of zeros only, after a decimal point that it may hold
\* as its first character
ZerosOfFraction(kept, cut) ==
    /\ \A i \in 2..Len(cut) : cut[i] = "0"
    /\ cut # <<>> => \/ cut[1] = "."
                     \/ cut[1] = "0" /\ str_contains(kept, ".")

\* The text shorter is the text formatted without trailing zeros of the
\* fractional part and a then-dangling decimal point, and nothing else is gone
OnlyZerosRemoved(formatted, shorter) ==
    /\ Len(shorter) <= Len(formatted)
    /\ shorter = SubSeq(formatted, 1, Len(shorter))
    /\ ZerosOfFraction(shorter, Removed(formatted, shorter))
    /\ ~ends_with(shorter, ".")
    /\ str_contains(shorter, ".") => ~ends_with(shorter, "0")
    /\ ~str_contains(formatted, ".") => shorter = formatted

\* The examples of C19
DisplayExamples(num, text) ==
    /\ num = Q(3, 2) => text = <<"1", ".", "5">>
    /\ num = F(2) => text = <<"2">>
    /\ num = Q(1, 10) => text = <<"0", ".", "1">>
    /\ num = F(100) => text = <<"1", "0", "0">>

\* C19: display_double_smartly removes only trailing zeros of the fractional
\* part and a then-dangling decimal point, and never a significant digit: 1.50
\* gives "1.5", 2.0 gives "2", 0.1 gives "0.1", and a text without a decimal
\* point (such as "100") is returned unchanged.
DisplayKeepsDigits ==
    pf.text.some =>
        /\ OnlyZerosRemoved(to_string(pf.num), pf.text.v)
        /\ DisplayExamples(pf.num, pf.text.v)

\* The label of 100 has been made
DisplayedHundred == pf.num = F(100) /\ pf.text = Some(<<"1", "0", "0">>)

-----------------------------------------------------------------------------
(* An AxesModel whose update_type the application has set to Fixed          *)

\* model.update_type = ViewUpdateType::Fixed, on a model that has been painted
FixedInit ==
    /\ \E b \in InitBounds, rect \in RenderRects :
          axes_model = [painted(AxesModel_new(b), rect) EXCEPT !.update_type = "Fixed"]
    /\ steps = 0
    /\ plot_model = PlotModel_new
    /\ plot_view = PlotView_new
    /\ last = NoOp
    /\ pf = NoOp

FixedNext ==
    \/ NewRender
    \/ \E element \in Elements : Plot(element)
    \/ Update
    \/ \E position \in DownPositions : PanBegin(position)
    \/ \E position \in MovePositions : Pan(position)
    \/ PanEnd
    \/ \E pt \in ScrollPositions, delta \in ScrollDeltas : Zoom(pt, delta)

SpecFixed == FixedInit /\ [][FixedNext]_vars

\* C17: while the update_type of an AxesModel is Fixed the view is fixed to its
\* current state: no pan_begin/pan, zoom or update call changes axes_bounds,
\* and update_type stays Fixed.
FixedViewKept ==
    (last.op # "none" /\ last.before.update_type = "Fixed") =>
        /\ axes_model.axes_bounds = last.before.axes_bounds
        /\ axes_model.update_type = "Fixed"
====
